---- MODULE Spec2Model ----
(***************************************************************************)
(* Bill-Scan-Bot: the Telegram command dispatcher (telegram-handlers.ts),  *)
(* the session directory (telegram-users.ts), the account table (auth.ts)  *)
(* and the receipt store (receipt-storage.ts, database.ts).                *)
(*                                                                         *)
(* Strings the code inspects (message texts, receipt ids, API keys) are    *)
(* sequences of one-character strings, so that startsWith, split and the   *)
(* /receipt regular expression are computed as the code computes them.     *)
(* A nullable column or field is a set: {} is NULL / null / undefined and  *)
(* {v} is the value v.                                                     *)
(***************************************************************************)
EXTENDS Integers, Sequences, FiniteSets, TLC

(***************************************************************************)
(* Bounds of the model.                                                    *)
(***************************************************************************)
\* live rows of the receipts table in the dispatcher specifications
MaxReceipts == 2
\* photo / text handlers suspended at an await at the same time
MaxInFlight == 1
\* largest value of the clock that stamps added_at
MaxTime == 1
\* accounts registered over REST
MaxRestUsers == 2
\* receipts linked to the one account of the /history specification
MaxHistory == 12
\* times the clock may stand still between two links in SpecHistory
MaxTies == 2
\* largest value of the clock in SpecRest, in token lifetimes
MaxTicks == 2

(***************************************************************************)
(* Program constants.                                                      *)
(***************************************************************************)
\* receipts.slice(0, 10) in handleHistory
HistoryLimit == 10
\* id.substring(0, 8): the short id shown to the user
ShortIdLen == 8

NULL == {}
Val(x) == {x}
TheVal(o) == CHOOSE x \in o : TRUE

\* JavaScript truthiness of a string-or-null value: null and "" are falsy
TruthyStr(o) == o # NULL /\ o # Val(<<>>)

Min(a, b) == IF a <= b THEN a ELSE b

(***************************************************************************)
(* Character-level string functions.                                       *)
(***************************************************************************)
\* String.prototype.startsWith
StartsWith(s, p) ==
  /\ Len(p) <= Len(s)
  /\ \A i \in 1..Len(p) : s[i] = p[i]

\* String.prototype.substring(0, n)
Substring0(s, n) == SubSeq(s, 1, Min(n, Len(s)))

\* characters matched by \s
IsWs(c) == c \in {" ", "\t", "\n"}

\* String.prototype.split(/\s+/): the pieces between maximal whitespace runs;
\* leading or trailing whitespace yields an empty first or last piece
RECURSIVE SplitFrom(_, _, _, _)
SplitFrom(s, i, cur, acc) ==
  IF i > Len(s) THEN Append(acc, cur)
  ELSE IF IsWs(s[i])
       THEN IF i > 1 /\ IsWs(s[i-1])
            THEN SplitFrom(s, i + 1, cur, acc)
            ELSE SplitFrom(s, i + 1, <<>>, Append(acc, cur))
       ELSE SplitFrom(s, i + 1, Append(cur, s[i]), acc)

SplitWs(s) == SplitFrom(s, 1, <<>>, <<>>)

\* [a-f0-9] under the i flag
IsHex(c) ==
  c \in {"0", "1", "2", "3", "4", "5", "6", "7", "8", "9",
         "a", "b", "c", "d", "e", "f", "A", "B", "C", "D", "E", "F"}

\* case folding of the letters the model uses, for the i flag of the regex
Lower(c) ==
  CASE c = "A" -> "a" [] c = "B" -> "b" [] c = "C" -> "c" [] c = "D" -> "d"
    [] c = "E" -> "e" [] c = "F" -> "f" [] c = "R" -> "r" [] c = "I" -> "i"
    [] c = "P" -> "p" [] c = "T" -> "t" [] OTHER -> c

LowerStr(s) == [i \in 1..Len(s) |-> Lower(s[i])]

\* the longest run of hexadecimal characters of s starting at position i
RECURSIVE HexRun(_, _)
HexRun(s, i) ==
  IF i <= Len(s) /\ IsHex(s[i]) THEN <<s[i]>> \o HexRun(s, i + 1) ELSE <<>>

S_start == <<"/", "s", "t", "a", "r", "t">>
S_setkey == <<"/", "s", "e", "t", "k", "e", "y">>
S_stats == <<"/", "s", "t", "a", "t", "s">>
S_history == <<"/", "h", "i", "s", "t", "o", "r", "y">>
S_delete == <<"/", "d", "e", "l", "e", "t", "e">>
S_help == <<"/", "h", "e", "l", "p">>
S_receipt == <<"/", "r", "e", "c", "e", "i", "p", "t">>

\* text.match(/^\/receipt[_]?([a-f0-9]+)/i): NULL when there is no match,
\* else the captured group
ReceiptMatch(text) ==
  IF ~StartsWith(LowerStr(text), S_receipt) THEN NULL
  ELSE LET n == Len(S_receipt)
           withUnderscore ==
             IF Len(text) > n /\ text[n + 1] = "_" THEN HexRun(text, n + 2) ELSE <<>>
           without == HexRun(text, n + 1)
       IN  IF withUnderscore # <<>> THEN Val(withUnderscore)
           ELSE IF without # <<>> THEN Val(without)
           ELSE NULL

\* handleMessage with the photo test before the command tests
Route_PhotoFirst(msg) ==
  LET text == msg.text IN
  IF Len(msg.photo) > 0 THEN "handlePhoto"
  ELSE IF StartsWith(text, S_start) THEN "handleStart"
  ELSE IF StartsWith(text, S_setkey) THEN "handleSetKey"
  ELSE IF StartsWith(text, S_stats) THEN "handleStats"
  ELSE IF StartsWith(text, S_history) THEN "handleHistory"
  ELSE IF StartsWith(text, S_delete) THEN "handleDelete"
  ELSE IF StartsWith(text, S_help) THEN "handleHelp"
  ELSE IF ReceiptMatch(text) # NULL THEN "handleReceiptDetail"
  ELSE IF text # <<>> /\ ~StartsWith(text, <<"/">>) THEN "handleTextReceipt"
  ELSE IF StartsWith(text, <<"/">>) THEN "unknownCommand"
  ELSE "ignored"

\* handleMessage: the handler the first matching test selects
Route(msg) ==
  LET text == msg.text IN
  IF StartsWith(text, S_start) THEN "handleStart"
  ELSE IF StartsWith(text, S_setkey) THEN "handleSetKey"
  ELSE IF StartsWith(text, S_stats) THEN "handleStats"
  ELSE IF StartsWith(text, S_history) THEN "handleHistory"
  ELSE IF StartsWith(text, S_delete) THEN "handleDelete"
  ELSE IF StartsWith(text, S_help) THEN "handleHelp"
  ELSE IF ReceiptMatch(text) # NULL THEN "handleReceiptDetail"
  ELSE IF Len(msg.photo) > 0 THEN "handlePhoto"
  ELSE IF text # <<>> /\ ~StartsWith(text, <<"/">>) THEN "handleTextReceipt"
  ELSE IF StartsWith(text, <<"/">>) THEN "unknownCommand"
  ELSE "ignored"

(***************************************************************************)
(* State.  The five tables of database.ts, the clock that stamps added_at, *)
(* the photo / text handlers suspended at an await, and the record of the  *)
(* last step (which handler ran, on what, and what it sent).               *)
(***************************************************************************)
VARIABLES
  users,           \* rows of users: [id, email]
  telegram_users,  \* rows of telegram_users: [chat_id, user_id, google_api_key]
  receipts,        \* rows of receipts: [id, total_amount]
  receipt_items,   \* rows of receipt_items: [id, receipt_id, name]
  user_receipts,   \* rows of user_receipts: [id, user_id, receipt_id, added_at, notes]
  now,             \* the clock read by new Date()
  handlers,        \* slot -> the local state of a suspended handlePhoto / handleTextReceipt
  last,            \* the last step taken
  poll,            \* telegram-bot.ts: the flag `running` and the locals of startPolling
  telegram,        \* the chat provider: the updates it holds for getUpdates
  log              \* the last offset sent, the update ids received, those of them with
                   \* a message, those handed to the handler and those whose handler
                   \* rejected so far, whether the last poll failed, and the event
                   \* whose handler was the last to finish, if it finished well

vars == <<users, telegram_users, receipts, receipt_items, user_receipts, now,
          handlers, last, poll, telegram, log>>

\* the state of the poll loop and of its transport
bot == <<poll, telegram, log>>

store == <<users, telegram_users, receipts, receipt_items, user_receipts>>

(***************************************************************************)
(* Inputs.                                                                 *)
(***************************************************************************)
\* String(msg.chat.id) of the chats that write to the bot
Chats == {"101", "202"}

\* `tg_${chatId}@telegram.local`
TgEmail(chatId) == <<"tg_", chatId, "@telegram.local">>

\* addresses a REST client registers: the handle of chat 101, and an ordinary one
RestEmails == {<<"tg_", "101", "@telegram.local">>, <<"alice", "", "@example.com">>}

K1 == <<"k", "1">>
K2 == <<"k", "2">>

\* crypto.randomUUID(), cut after its second group: 8 hex, "-", 4 hex
U1 == <<"a", "1", "b", "2", "c", "3", "d", "4", "-", "0", "0", "0", "1">>
U2 == <<"a", "1", "b", "2", "c", "3", "d", "4", "-", "0", "0", "0", "2">>
U3 == <<"a", "9", "0", "0", "0", "0", "0", "0", "-", "0", "0", "0", "3">>
Uuids == {U1, U2, U3}

\* id prefixes a user types after /delete or /receipt_
P_a == <<"a">>
P_a1 == <<"a", "1", "b", "2", "c", "3", "d", "4">>
P_full1 == U1
P_upper == <<"A", "9">>
P_none == <<"f", "f">>

Caption == <<"l", "u", "n", "c", "h">>
ErrNotReceipt == <<"N", "o", "t", " ", "a", " ", "r", "e", "c", "e", "i", "p", "t">>

\* parsed extraction results (ReceiptAnalysisResult): the fields the store reads
Item(name) == [name |-> name]
ItemOk == Item(Val(<<"t", "e", "a">>))
R110 == [error |-> NULL, total_amount |-> Val(110), items |-> Val(<<ItemOk>>)]
R220 == [error |-> NULL, total_amount |-> Val(220), items |-> Val(<<>>)]
RNoTotal == [error |-> NULL, total_amount |-> NULL, items |-> Val(<<ItemOk>>)]
RError == [error |-> Val(ErrNotReceipt), total_amount |-> NULL, items |-> Val(<<>>)]
REmptyError == [error |-> Val(<<>>), total_amount |-> Val(110), items |-> Val(<<>>)]
RTwoItems == [error |-> NULL, total_amount |-> Val(220), items |-> Val(<<ItemOk, ItemOk>>)]
RBadItem == [error |-> NULL, total_amount |-> Val(110), items |-> Val(<<ItemOk, Item(NULL)>>)]

\* what the Extraction Bridge hands back: it throws, or returns text that is
\* not JSON, or the JSON text of a value
BridgeThrows == [kind |-> "throws", value |-> R110]
NotJson == [kind |-> "garbage", value |-> R110]
Json(r) == [kind |-> "json", value |-> r]

\* a parser that takes any text the bridge returns for JSON
JsonParse_Lenient(raw) == [ok |-> raw.kind # "throws", value |-> raw.value]

\* JSON.parse(rawResult)
JsonParse(raw) ==
  IF raw.kind = "json" THEN [ok |-> TRUE, value |-> raw.value]
  ELSE [ok |-> FALSE, value |-> raw.value]

(***************************************************************************)
(* auth.ts and telegram-users.ts                                           *)
(***************************************************************************)
\* createUser: INSERT INTO users; users.email is UNIQUE
CreateUser(email) ==
  IF \E u \in users : u.email = email
  THEN [threw |-> TRUE, users |-> users, id |-> 0]
  ELSE LET id == Cardinality(users) + 1
       IN  [threw |-> FALSE, users |-> users \cup {[id |-> id, email |-> email]}, id |-> id]

\* findUserByEmail
FindUserByEmail(email) == {u \in users : u.email = email}

\* findTelegramUser: SELECT * FROM telegram_users WHERE chat_id = ?
FindTelegramUser(chatId) == {t \in telegram_users : t.chat_id = chatId}

\* createTelegramUser that inserts the session row without creating the account
CreateTelegramUser_NoAccount(chatId) ==
  LET row == [chat_id |-> chatId, user_id |-> Cardinality(users) + 1, google_api_key |-> NULL]
  IN  IF \E t \in telegram_users : t.chat_id = chatId
      THEN [threw |-> TRUE, users |-> users, tg |-> telegram_users, row |-> NULL]
      ELSE [threw |-> FALSE, users |-> users, tg |-> telegram_users \cup {row},
            row |-> Val(row)]

\* createTelegramUser: createUser, then INSERT INTO telegram_users
\* (chat_id is the PRIMARY KEY, user_id REFERENCES users)
CreateTelegramUser(chatId) ==
  LET cu == CreateUser(TgEmail(chatId))
      row == [chat_id |-> chatId, user_id |-> cu.id, google_api_key |-> NULL]
  IN  IF cu.threw
      THEN [threw |-> TRUE, users |-> users, tg |-> telegram_users, row |-> NULL]
      ELSE IF \E t \in telegram_users : t.chat_id = chatId
      THEN [threw |-> TRUE, users |-> cu.users, tg |-> telegram_users, row |-> NULL]
      ELSE [threw |-> FALSE, users |-> cu.users, tg |-> telegram_users \cup {row},
            row |-> Val(row)]

\* getOrCreateTelegramUser without the lookup of the existing session
GetOrCreate_NoLookup(chatId) == CreateTelegramUser(chatId)

\* getOrCreateTelegramUser
GetOrCreateTelegramUser(chatId) ==
  LET existing == FindTelegramUser(chatId)
  IN  IF existing # {}
      THEN [threw |-> FALSE, users |-> users, tg |-> telegram_users, row |-> existing]
      ELSE CreateTelegramUser(chatId)

\* setGoogleApiKey whose UPDATE has no WHERE clause
SetGoogleApiKey_NoWhere(tg, chatId, apiKey) ==
  {[t EXCEPT !.google_api_key = Val(apiKey)] : t \in tg}

\* setGoogleApiKey that writes only where no credential is stored yet
\* (... WHERE chat_id = ? AND google_api_key IS NULL)
SetGoogleApiKey_KeepFirst(tg, chatId, apiKey) ==
  {IF t.chat_id = chatId /\ t.google_api_key = NULL
   THEN [t EXCEPT !.google_api_key = Val(apiKey)] ELSE t : t \in tg}

\* setGoogleApiKey: UPDATE telegram_users SET google_api_key = ? WHERE chat_id = ?
SetGoogleApiKey(tg, chatId, apiKey) ==
  {IF t.chat_id = chatId THEN [t EXCEPT !.google_api_key = Val(apiKey)] ELSE t : t \in tg}

(***************************************************************************)
(* receipt-storage.ts, over db = [receipts, receipt_items, user_receipts]  *)
(***************************************************************************)
DB == [receipts |-> receipts, receipt_items |-> receipt_items,
       user_receipts |-> user_receipts]

\* a fresh row id (crypto.randomUUID() used only as a key)
FreshRowId(rows) == CHOOSE n \in 1..(Cardinality(rows) + 1) : \A r \in rows : r.id # n

\* the loop of createReceipt's transaction: insertItem.run per item;
\* receipt_items.name is NOT NULL
RECURSIVE InsertItems(_, _, _, _)
InsertItems(db, receiptId, items, i) ==
  IF i > Len(items) THEN [threw |-> FALSE, db |-> db]
  ELSE IF items[i].name = NULL THEN [threw |-> TRUE, db |-> db]
  ELSE InsertItems(
         [db EXCEPT !.receipt_items = @ \cup
            {[id |-> FreshRowId(db.receipt_items), receipt_id |-> receiptId,
              name |-> items[i].name]}],
         receiptId, items, i + 1)

\* createReceipt with the two INSERT statements run outside a transaction
CreateReceipt_NoTransaction(db, analysisResult, id) ==
  LET withReceipt ==
        [db EXCEPT !.receipts = @ \cup
           {[id |-> id, total_amount |-> analysisResult.total_amount]}]
  IN  IF \E r \in db.receipts : r.id = id THEN [threw |-> TRUE, db |-> db]
      ELSE IF analysisResult.items = NULL THEN [threw |-> TRUE, db |-> withReceipt]
      ELSE InsertItems(withReceipt, id, TheVal(analysisResult.items), 1)

\* createReceipt: db.transaction(insert the receipt, insert each item)();
\* an exception inside rolls the transaction back
CreateReceipt(db, analysisResult, id) ==
  LET withReceipt ==
        [db EXCEPT !.receipts = @ \cup
           {[id |-> id, total_amount |-> analysisResult.total_amount]}]
  IN  IF \E r \in db.receipts : r.id = id THEN [threw |-> TRUE, db |-> db]
      ELSE IF analysisResult.items = NULL THEN [threw |-> TRUE, db |-> db]
      ELSE LET done == InsertItems(withReceipt, id, TheVal(analysisResult.items), 1)
           IN  IF done.threw THEN [threw |-> TRUE, db |-> db] ELSE done

\* notes || null
NotesOrNull(notes) == IF TruthyStr(notes) THEN notes ELSE NULL

\* linkReceiptToUser on a table without UNIQUE(user_id, receipt_id)
LinkReceiptToUser_NoUnique(db, userId, receiptId, notes, addedAt) ==
  IF \/ ~\E u \in users : u.id = userId
     \/ ~\E r \in db.receipts : r.id = receiptId
  THEN [threw |-> TRUE, db |-> db]
  ELSE [threw |-> FALSE,
        db |-> [db EXCEPT !.user_receipts = @ \cup
                  {[id |-> FreshRowId(db.user_receipts), user_id |-> userId,
                    receipt_id |-> receiptId, added_at |-> addedAt,
                    notes |-> NotesOrNull(notes)]}]]

\* linkReceiptToUser with foreign-key enforcement off
LinkReceiptToUser_NoForeignKeys(db, userId, receiptId, notes, addedAt) ==
  IF \E l \in db.user_receipts : l.user_id = userId /\ l.receipt_id = receiptId
  THEN [threw |-> TRUE, db |-> db]
  ELSE [threw |-> FALSE,
        db |-> [db EXCEPT !.user_receipts = @ \cup
                  {[id |-> FreshRowId(db.user_receipts), user_id |-> userId,
                    receipt_id |-> receiptId, added_at |-> addedAt,
                    notes |-> NotesOrNull(notes)]}]]

\* linkReceiptToUser: INSERT INTO user_receipts; UNIQUE(user_id, receipt_id),
\* user_id REFERENCES users, receipt_id REFERENCES receipts (foreign_keys = ON)
LinkReceiptToUser(db, userId, receiptId, notes, addedAt) ==
  IF \/ \E l \in db.user_receipts : l.user_id = userId /\ l.receipt_id = receiptId
     \/ ~\E u \in users : u.id = userId
     \/ ~\E r \in db.receipts : r.id = receiptId
  THEN [threw |-> TRUE, db |-> db]
  ELSE [threw |-> FALSE,
        db |-> [db EXCEPT !.user_receipts = @ \cup
                  {[id |-> FreshRowId(db.user_receipts), user_id |-> userId,
                    receipt_id |-> receiptId, added_at |-> addedAt,
                    notes |-> NotesOrNull(notes)]}]]

\* createReceiptForUser that does not pass the notes on to linkReceiptToUser
CreateReceiptForUser_NoNotes(db, userId, analysisResult, notes, id, addedAt) ==
  LET created == CreateReceipt(db, analysisResult, id)
  IN  IF created.threw THEN created
      ELSE LinkReceiptToUser(created.db, userId, id, NULL, addedAt)

\* createReceiptForUser: createReceipt, then linkReceiptToUser
CreateReceiptForUser(db, userId, analysisResult, notes, id, addedAt) ==
  LET created == CreateReceipt(db, analysisResult, id)
  IN  IF created.threw THEN created
      ELSE LinkReceiptToUser(created.db, userId, id, notes, addedAt)

\* unlinkReceiptFromUser: DELETE FROM user_receipts WHERE user_id = ? AND receipt_id = ?
UnlinkReceiptFromUser(db, userId, receiptId) ==
  [db EXCEPT !.user_receipts =
     {l \in @ : ~(l.user_id = userId /\ l.receipt_id = receiptId)}]

\* deleteReceipt with foreign-key enforcement off: the rows that reference
\* the receipt stay
DeleteReceipt_NoCascade(db, id) == [db EXCEPT !.receipts = {r \in @ : r.id # id}]

\* deleteReceipt: DELETE FROM receipts WHERE id = ?; receipt_items and
\* user_receipts reference receipts ON DELETE CASCADE
DeleteReceipt(db, id) ==
  [receipts |-> {r \in db.receipts : r.id # id},
   receipt_items |-> {i \in db.receipt_items : i.receipt_id # id},
   user_receipts |-> {l \in db.user_receipts : l.receipt_id # id}]

\* the join without its WHERE clause: the receipts of every account
JoinedRows_AllUsers(db, userId) ==
  {[id |-> r.id, total_amount |-> r.total_amount, user_receipt_id |-> l.id,
    added_at |-> l.added_at, notes |-> l.notes] :
     <<r, l>> \in {p \in db.receipts \X db.user_receipts : p[1].id = p[2].receipt_id}}

\* the rows of receipts r INNER JOIN user_receipts ur ON r.id = ur.receipt_id
\* WHERE ur.user_id = ?
JoinedRows(db, userId) ==
  {[id |-> r.id, total_amount |-> r.total_amount, user_receipt_id |-> l.id,
    added_at |-> l.added_at, notes |-> l.notes] :
     <<r, l>> \in {p \in db.receipts \X db.user_receipts :
                     p[1].id = p[2].receipt_id /\ p[2].user_id = userId}}

\* ORDER BY added_at ASC
RECURSIVE OrderedDesc_Asc(_)
OrderedDesc_Asc(rows) ==
  IF rows = {} THEN {<<>>}
  ELSE LET oldest == {r \in rows : \A q \in rows : r.added_at <= q.added_at}
       IN  UNION {{<<r>> \o rest : rest \in OrderedDesc_Asc(rows \ {r})} : r \in oldest}

\* ORDER BY added_at DESC: every order of the rows in which added_at never
\* increases (SQL leaves the order of rows with equal added_at open)
RECURSIVE OrderedDesc(_)
OrderedDesc(rows) ==
  IF rows = {} THEN {<<>>}
  ELSE LET newest == {r \in rows : \A q \in rows : q.added_at <= r.added_at}
       IN  UNION {{<<r>> \o rest : rest \in OrderedDesc(rows \ {r})} : r \in newest}

\* getUserReceipts: the results the query can return
GetUserReceipts(db, userId) == OrderedDesc(JoinedRows(db, userId))

\* find, returning the last receipt of the list that starts with the prefix
FindByPrefix_Last(rs, prefix) ==
  LET hits == {i \in 1..Len(rs) : StartsWith(rs[i].id, prefix)}
  IN  IF hits = {} THEN NULL
      ELSE Val(rs[CHOOSE i \in hits : \A j \in hits : i >= j])

\* receipts.find((r) => r.id.startsWith(prefix)): NULL when none is found
FindByPrefix(rs, prefix) ==
  LET hits == {i \in 1..Len(rs) : StartsWith(rs[i].id, prefix)}
  IN  IF hits = {} THEN NULL
      ELSE Val(rs[CHOOSE i \in hits : \A j \in hits : i <= j])

RECURSIVE SumAmounts(_)
SumAmounts(rows) ==
  IF rows = {} THEN 0
  ELSE LET r == CHOOSE x \in rows : TRUE
       IN  TheVal(r.total_amount) + SumAmounts(rows \ {r})

\* statistics whose average is the sum divided by the number of rows
GetUserReceiptStats_PerRow(db, userId) ==
  LET rows == JoinedRows(db, userId)
      valued == {r \in rows : r.total_amount # NULL}
  IN  [totalReceipts |-> Cardinality(rows),
       totalAmount |-> SumAmounts(valued),
       averageAmount |->
         IF rows = {} THEN [num |-> 0, den |-> 1]
         ELSE [num |-> SumAmounts(valued), den |-> Cardinality(rows)]]

\* statistics without the COALESCE around AVG: over no rows the average is
\* the quotient 0 / 0
GetUserReceiptStats_NoCoalesce(db, userId) ==
  LET rows == JoinedRows(db, userId)
      valued == {r \in rows : r.total_amount # NULL}
  IN  [totalReceipts |-> Cardinality(rows),
       totalAmount |-> SumAmounts(valued),
       averageAmount |-> [num |-> SumAmounts(valued), den |-> Cardinality(valued)]]

\* getUserReceiptStats: COUNT(*), COALESCE(SUM(total_amount), 0) and
\* COALESCE(AVG(total_amount), 0) over the joined rows.  SUM and AVG skip
\* NULL amounts; the average is kept as the fraction num / den
GetUserReceiptStats(db, userId) ==
  LET rows == JoinedRows(db, userId)
      valued == {r \in rows : r.total_amount # NULL}
  IN  [totalReceipts |-> Cardinality(rows),
       totalAmount |-> SumAmounts(valued),
       averageAmount |->
         IF valued = {} THEN [num |-> 0, den |-> 1]
         ELSE [num |-> SumAmounts(valued), den |-> Cardinality(valued)]]

(***************************************************************************)
(* Inbound messages (TgMessage): chat, text ('' when absent), the photo    *)
(* sizes (TgPhotoSize: file_id, width, height), and the caption.           *)
(***************************************************************************)
Text(chat, text) == [chat |-> chat, text |-> text, photo |-> <<>>, caption |-> NULL]

TgPhotoSize(file_id, width, height) == [file_id |-> file_id, width |-> width, height |-> height]
PhotoSmall == TgPhotoSize("file_s", 90, 60)
PhotoMedium == TgPhotoSize("file_m", 320, 240)
PhotoLarge == TgPhotoSize("file_l", 1280, 960)

\* a message with the photo sizes as given
PhotoOf(chat, caption, photo) == [chat |-> chat, text |-> <<>>, photo |-> photo, caption |-> caption]

\* a message with a photo in two sizes
Photo(chat, caption) ==
  [chat |-> chat, text |-> <<>>, photo |-> <<PhotoSmall, PhotoLarge>>, caption |-> caption]

NoStats == [totalReceipts |-> 0, totalAmount |-> 0, averageAmount |-> [num |-> 0, den |-> 1]]

\* the record of a step: the handler (op) and the place in it the step starts
\* at (for a REST route: the Authorization header of the request in auth, its
\* body in body, the status of the response in reply),
\* at, its message, whether it ended by throwing, the reply it sent (the
\* sendMessage call), what the reply rendered, the credential handed to the
\* bridge (key), the kind of answer the bridge gave (raw) and the error field
\* of the parsed answer (err; the reply "domain_error" relays it)
Step(op, at, chat, text, reply) ==
  [op |-> op, at |-> at, chat |-> chat, text |-> text, threw |-> FALSE,
   reply |-> reply, uid |-> NULL, key |-> NULL, shown |-> <<>>, short |-> <<>>,
   err |-> NULL, raw |-> "", stats |-> NoStats, auth |-> NULL, body |-> NULL]

Threw(op, at, chat, text) == [Step(op, at, chat, text, "none") EXCEPT !.threw = TRUE]

Idle == [kind |-> "idle", pc |-> "", chat |-> "", user_id |-> 0, apiKey |-> NULL,
         caption |-> NULL, photo |-> <<>>]

FreeSlots == {s \in DOMAIN handlers : handlers[s].kind = "idle"}
FirstFreeSlot == CHOOSE s \in FreeSlots : \A q \in FreeSlots : s <= q

SetDB(db) ==
  /\ receipts' = db.receipts
  /\ receipt_items' = db.receipt_items
  /\ user_receipts' = db.user_receipts

Ids(rs) == [i \in 1..Len(rs) |-> rs[i].id]
ShortId(id) == Substring0(id, ShortIdLen)
ShortIds(rs) == [i \in 1..Len(rs) |-> ShortId(rs[i].id)]

Init ==
  /\ users = {}
  /\ telegram_users = {}
  /\ receipts = {}
  /\ receipt_items = {}
  /\ user_receipts = {}
  /\ now = 0
  /\ handlers = [s \in 1..MaxInFlight |-> Idle]
  /\ last = Step("init", "", "", <<>>, "none")
  /\ poll = [running |-> FALSE, pc |-> "off", offset |-> 0, updates |-> <<>>]
  /\ telegram = [pending |-> <<>>, next_id |-> 1]
  /\ log = [sent |-> NULL, received |-> {}, messages |-> {}, dispatched |-> <<>>,
            rejected |-> {}, failed |-> FALSE, done |-> NULL]

(***************************************************************************)
(* telegram-handlers.ts: one action per handler, from handleMessage's test *)
(* that selects it to the handler's first await (the database calls are    *)
(* synchronous, so a command handler is one step).                         *)
(***************************************************************************)
HandleStart(msg) ==
  /\ Route(msg) = "handleStart"
  /\ LET g == GetOrCreateTelegramUser(msg.chat)
     IN  /\ users' = g.users
         /\ telegram_users' = g.tg
         /\ last' = IF g.threw THEN Threw("handleStart", "dispatch", msg.chat, msg.text)
                    ELSE [Step("handleStart", "dispatch", msg.chat, msg.text, "welcome")
                            EXCEPT !.uid = Val(TheVal(g.row).user_id)]
  /\ UNCHANGED <<receipts, receipt_items, user_receipts, now, handlers>>

\* handleSetKey that awaits its reply before it calls setGoogleApiKey: the
\* write is still to come when the call of the handler returns
HandleSetKey_ReplyFirst(msg) ==
  /\ Route(msg) = "handleSetKey"
  /\ LET g == GetOrCreateTelegramUser(msg.chat)
         parts == SplitWs(msg.text)
     IN  /\ users' = g.users
         /\ telegram_users' = g.tg
         /\ IF g.threw
            THEN last' = Threw("handleSetKey", "dispatch", msg.chat, msg.text)
            ELSE IF Len(parts) < 2 \/ parts[2] = <<>>
            THEN last' = [Step("handleSetKey", "dispatch", msg.chat, msg.text, "setkey_usage")
                            EXCEPT !.uid = Val(TheVal(g.row).user_id)]
            ELSE last' = [Step("handleSetKey", "dispatch", msg.chat, msg.text, "key_updated")
                            EXCEPT !.uid = Val(TheVal(g.row).user_id),
                                   !.key = Val(parts[2])]
  /\ UNCHANGED <<receipts, receipt_items, user_receipts, now, handlers>>

HandleSetKey(msg) ==
  /\ Route(msg) = "handleSetKey"
  /\ LET g == GetOrCreateTelegramUser(msg.chat)
         parts == SplitWs(msg.text)
     IN  /\ users' = g.users
         /\ IF g.threw
            THEN /\ telegram_users' = g.tg
                 /\ last' = Threw("handleSetKey", "dispatch", msg.chat, msg.text)
            ELSE IF Len(parts) < 2 \/ parts[2] = <<>>
            THEN /\ telegram_users' = g.tg
                 /\ last' = [Step("handleSetKey", "dispatch", msg.chat, msg.text, "setkey_usage")
                               EXCEPT !.uid = Val(TheVal(g.row).user_id)]
            ELSE /\ telegram_users' = SetGoogleApiKey(g.tg, msg.chat, parts[2])
                 /\ last' = [Step("handleSetKey", "dispatch", msg.chat, msg.text, "key_updated")
                               EXCEPT !.uid = Val(TheVal(g.row).user_id),
                                      !.key = Val(parts[2])]
  /\ UNCHANGED <<receipts, receipt_items, user_receipts, now, handlers>>

\* handleStats with getOrCreateTelegramUser in the place of findTelegramUser
HandleStats_Provisions(msg) ==
  /\ Route(msg) = "handleStats"
  /\ LET g == GetOrCreateTelegramUser(msg.chat)
     IN  /\ users' = g.users
         /\ telegram_users' = g.tg
         /\ last' = IF g.threw THEN Threw("handleStats", "dispatch", msg.chat, msg.text)
                    ELSE [Step("handleStats", "dispatch", msg.chat, msg.text, "stats")
                            EXCEPT !.stats = GetUserReceiptStats(DB, TheVal(g.row).user_id)]
  /\ UNCHANGED <<receipts, receipt_items, user_receipts, now, handlers>>

HandleStats(msg) ==
  /\ Route(msg) = "handleStats"
  /\ LET tgUser == FindTelegramUser(msg.chat)
     IN  last' = IF tgUser = {}
                 THEN Step("handleStats", "dispatch", msg.chat, msg.text, "register_first")
                 ELSE [Step("handleStats", "dispatch", msg.chat, msg.text, "stats")
                         EXCEPT !.stats = GetUserReceiptStats(DB, TheVal(tgUser).user_id)]
  /\ UNCHANGED <<store, now, handlers>>

HandleHistory(msg) ==
  /\ Route(msg) = "handleHistory"
  /\ LET tgUser == FindTelegramUser(msg.chat)
     IN  IF tgUser = {}
         THEN last' = Step("handleHistory", "dispatch", msg.chat, msg.text, "register_first")
         ELSE \E rs \in GetUserReceipts(DB, TheVal(tgUser).user_id) :
                IF Len(rs) = 0
                THEN last' = Step("handleHistory", "dispatch", msg.chat, msg.text, "no_receipts")
                ELSE LET recent == SubSeq(rs, 1, Min(HistoryLimit, Len(rs)))
                     IN  last' = [Step("handleHistory", "dispatch", msg.chat, msg.text, "history")
                                    EXCEPT !.shown = Ids(recent), !.short = ShortIds(recent)]
  /\ UNCHANGED <<store, now, handlers>>

HandleReceiptDetail(msg) ==
  /\ Route(msg) = "handleReceiptDetail"
  /\ LET tgUser == FindTelegramUser(msg.chat)
         receiptIdPrefix == TheVal(ReceiptMatch(msg.text))
     IN  IF tgUser = {}
         THEN last' = Step("handleReceiptDetail", "dispatch", msg.chat, msg.text, "register_first")
         ELSE \E rs \in GetUserReceipts(DB, TheVal(tgUser).user_id) :
                LET match == FindByPrefix(rs, receiptIdPrefix)
                IN  last' = IF match = NULL
                            THEN Step("handleReceiptDetail", "dispatch", msg.chat, msg.text, "not_found")
                            ELSE [Step("handleReceiptDetail", "dispatch", msg.chat, msg.text, "detail")
                                    EXCEPT !.shown = <<TheVal(match).id>>]
  /\ UNCHANGED <<store, now, handlers>>

HandleDelete(msg) ==
  /\ Route(msg) = "handleDelete"
  /\ LET tgUser == FindTelegramUser(msg.chat)
         parts == SplitWs(msg.text)
     IN  IF tgUser = {}
         THEN /\ last' = Step("handleDelete", "dispatch", msg.chat, msg.text, "register_first")
              /\ UNCHANGED <<receipts, receipt_items, user_receipts>>
         ELSE IF Len(parts) < 2
         THEN /\ last' = Step("handleDelete", "dispatch", msg.chat, msg.text, "delete_usage")
              /\ UNCHANGED <<receipts, receipt_items, user_receipts>>
         ELSE \E rs \in GetUserReceipts(DB, TheVal(tgUser).user_id) :
                LET match == FindByPrefix(rs, parts[2])
                IN  IF match = NULL
                    THEN /\ last' = Step("handleDelete", "dispatch", msg.chat, msg.text, "delete_not_found")
                         /\ UNCHANGED <<receipts, receipt_items, user_receipts>>
                    ELSE LET id == TheVal(match).id
                         IN  /\ SetDB(DeleteReceipt(
                                   UnlinkReceiptFromUser(DB, TheVal(tgUser).user_id, id), id))
                             /\ last' = [Step("handleDelete", "dispatch", msg.chat, msg.text, "deleted")
                                           EXCEPT !.shown = <<id>>, !.short = <<ShortId(id)>>]
  /\ UNCHANGED <<users, telegram_users, now, handlers>>

HandleHelp(msg) ==
  /\ Route(msg) = "handleHelp"
  /\ last' = Step("handleHelp", "dispatch", msg.chat, msg.text, "help")
  /\ UNCHANGED <<store, now, handlers>>

UnknownCommand(msg) ==
  /\ Route(msg) = "unknownCommand"
  /\ last' = Step("unknownCommand", "dispatch", msg.chat, msg.text, "unknown_command")
  /\ UNCHANGED <<store, now, handlers>>

Ignored(msg) ==
  /\ Route(msg) = "ignored"
  /\ last' = Step("ignored", "dispatch", msg.chat, msg.text, "none")
  /\ UNCHANGED <<store, now, handlers>>

\* a gate that lets every event through
NeedsKey_Never(apiKey) == FALSE

\* `if (!apiKey)` of handlePhoto and handleTextReceipt
NeedsKey(apiKey) == ~TruthyStr(apiKey)

\* process.env.GOOGLE_API_KEY of the deployment
EnvGoogleApiKey == <<"e", "n", "v">>

\* the key createGeminiModel hands to GoogleGenerativeAI:
\* apiKey || process.env.GOOGLE_API_KEY || ""
CreateGeminiModel(apiKey) == IF TruthyStr(apiKey) THEN apiKey ELSE Val(EnvGoogleApiKey)

\* handlePhoto and handleTextReceipt up to `await sendChatAction(chatId, 'typing')`:
\* provision the session, read the credential, and either ask for /setkey or
\* go on (the handler is then suspended with its locals user and apiKey)
CredentialGate(op, kind, msg) ==
  LET tgUser == FindTelegramUser(msg.chat)
      g == GetOrCreateTelegramUser(msg.chat)
      user == TheVal({t \in g.tg : t.chat_id = msg.chat})
      apiKey == user.google_api_key
  IN  /\ users' = g.users
      /\ telegram_users' = g.tg
      /\ IF tgUser = {} /\ g.threw
         THEN /\ last' = Threw(op, "dispatch", msg.chat, msg.text)
              /\ UNCHANGED handlers
         ELSE IF NeedsKey(apiKey)
         THEN /\ last' = [Step(op, "dispatch", msg.chat, msg.text, "need_key")
                            EXCEPT !.uid = Val(user.user_id)]
              /\ UNCHANGED handlers
         ELSE /\ FreeSlots # {}
              /\ handlers' =
                   [handlers EXCEPT ![FirstFreeSlot] =
                      [kind |-> kind, pc |-> "typing", chat |-> msg.chat,
                       user_id |-> user.user_id, apiKey |-> apiKey,
                       caption |-> msg.caption, photo |-> msg.photo]]
              /\ last' = [Step(op, "dispatch", msg.chat, msg.text, "none")
                            EXCEPT !.uid = Val(user.user_id)]

HandlePhoto(msg) ==
  /\ Route(msg) = "handlePhoto"
  /\ CredentialGate("handlePhoto", "photo", msg)
  /\ UNCHANGED <<receipts, receipt_items, user_receipts, now>>

HandleTextReceipt(msg) ==
  /\ Route(msg) = "handleTextReceipt"
  /\ CredentialGate("handleTextReceipt", "text", msg)
  /\ UNCHANGED <<receipts, receipt_items, user_receipts, now>>

HandlerOp(h) == IF h.kind = "photo" THEN "handlePhoto" ELSE "handleTextReceipt"

\* the bridge call of a handler that reads the session again when it calls
BridgeKey_Reread(h) == UNION {t.google_api_key : t \in FindTelegramUser(h.chat)}

\* apiKey, the constant the handler set at dispatch, as the bridge call's argument
BridgeKey(h) == h.apiKey

\* `await sendChatAction` settles.  It is outside the try block: a rejection
\* ends the handler with that rejection.  The text handler goes straight on to
\* createGeminiModel(apiKey) and model.generateContent
TypingDone(s, ok) ==
  LET h == handlers[s] IN
  /\ h.kind # "idle" /\ h.pc = "typing"
  /\ IF ~ok
     THEN /\ handlers' = [handlers EXCEPT ![s] = Idle]
          /\ last' = Threw(HandlerOp(h), "typing", h.chat, <<>>)
     ELSE IF h.kind = "photo"
     THEN /\ handlers' = [handlers EXCEPT ![s].pc = "fetch"]
          /\ last' = Step(HandlerOp(h), "typing", h.chat, <<>>, "none")
     ELSE /\ handlers' = [handlers EXCEPT ![s].pc = "analyze"]
          /\ last' = [Step(HandlerOp(h), "typing", h.chat, <<>>, "none") EXCEPT !.key = CreateGeminiModel(BridgeKey(h))]
  /\ UNCHANGED <<store, now>>

\* const largest = photos[photos.length - 1]
Largest(photos) == photos[Len(photos)]

\* handlePhoto from getFile to the call of analyzeReceiptImage (the file_id
\* handed to getFile is kept in body): getFile,
\* downloadFileBuffer and the progress message touch no table.  One of them
\* rejects (caught: the failure reply), or the file has no file_path, or the
\* bridge is called with apiKey
PhotoFetch(s, outcome) ==
  LET h == handlers[s]
      largest == Largest(h.photo)
      step(reply) == [Step("handlePhoto", "fetch", h.chat, <<>>, reply)
                        EXCEPT !.body = Val(largest.file_id)]
  IN
  /\ h.kind = "photo" /\ h.pc = "fetch"
  /\ CASE outcome = "rejects" ->
            /\ handlers' = [handlers EXCEPT ![s] = Idle]
            /\ last' = step("failed")
       [] outcome = "no_file_path" ->
            /\ handlers' = [handlers EXCEPT ![s] = Idle]
            /\ last' = step("no_file")
       [] OTHER ->
            /\ handlers' = [handlers EXCEPT ![s].pc = "analyze"]
            /\ last' = [step("analyzing") EXCEPT !.key = CreateGeminiModel(BridgeKey(h))]
  /\ UNCHANGED <<store, now>>

\* an error test that never fires
HasError_Never(analysisResult) == FALSE

\* `if (analysisResult.error)`: a truthiness test, so null, undefined and ""
\* all pass as "no error"
HasError(analysisResult) == TruthyStr(analysisResult.error)

\* the outcome of JSON.parse and the error test on raw: TRUE when the handler
\* goes on to createReceiptForUser
Persists(raw) == JsonParse(raw).ok /\ ~HasError(JsonParse(raw).value)

\* the bridge call settles with raw; then JSON.parse, the error test and
\* createReceiptForUser run without a further await.  id is the value of
\* crypto.randomUUID() in createReceipt, t the clock read by linkReceiptToUser
AnalyzeReturn(s, raw, id, t) ==
  LET h == handlers[s]
      op == HandlerOp(h)
      parsed == JsonParse(raw)
      analysisResult == parsed.value
      saved == CreateReceiptForUser(DB, h.user_id, analysisResult,
                                    IF h.kind = "photo" THEN NotesOrNull(h.caption) ELSE NULL,
                                    id, t)
      step(reply) == [Step(op, "analyze", h.chat, <<>>, reply)
                        EXCEPT !.raw = raw.kind,
                               !.body = IF parsed.ok THEN Val(analysisResult) ELSE NULL]
  IN
  /\ h.kind # "idle" /\ h.pc = "analyze"
  /\ handlers' = [handlers EXCEPT ![s] = Idle]
  /\ IF raw.kind = "throws"
     THEN /\ last' = step("failed")
          /\ UNCHANGED <<receipts, receipt_items, user_receipts, now>>
     ELSE IF ~parsed.ok
     THEN /\ last' = step("parse_error")
          /\ UNCHANGED <<receipts, receipt_items, user_receipts, now>>
     ELSE IF HasError(analysisResult)
     THEN /\ last' = [step("domain_error") EXCEPT !.err = analysisResult.error]
          /\ UNCHANGED <<receipts, receipt_items, user_receipts, now>>
     ELSE /\ id \notin {r.id : r \in receipts}
          /\ t \in {now, now + 1}
          /\ now' = t
          /\ SetDB(saved.db)
          /\ last' = IF saved.threw THEN [step("failed") EXCEPT !.err = analysisResult.error]
                     ELSE [step("saved") EXCEPT !.err = analysisResult.error,
                                                !.shown = <<id>>, !.short = <<ShortId(id)>>]
  /\ UNCHANGED <<users, telegram_users>>

(***************************************************************************)
(* routes/auth.ts                                                          *)
(***************************************************************************)
RestUsers == {u \in users : \A t \in telegram_users : t.user_id # u.id}

\* isValidEmail, /^[^\s@]+@[^\s@]+\.[^\s@]+$/, on the addresses of the model:
\* a local part, and "@" with a dotted domain after it
IsValidEmail(email) ==
  /\ email[1] \o email[2] # ""
  /\ email[3] \in {"@telegram.local", "@example.com"}

\* bodies of POST /api/auth/register: a field that is absent is NULL
GoodPassword == <<"s", "e", "c", "r", "e", "t">>
ShortPassword == <<"a", "b", "c">>
SomeName == <<"A", "l">>
RegisterBody(email) == [email |-> Val(email), password |-> Val(GoodPassword),
                        name |-> Val(SomeName)]

\* a registration that does not look the address up before it inserts
HandleRegister_NoLookup(body) ==
  LET cu == CreateUser(TheVal(body.email))
  IN  /\ body.email # NULL
      /\ users' = cu.users
      /\ last' = [Step("handleRegister", "request", "", TheVal(body.email),
                       IF cu.threw THEN "500" ELSE "201")
                    EXCEPT !.uid = IF cu.threw THEN NULL ELSE Val(cu.id),
                           !.body = Val(body)]
      /\ UNCHANGED <<telegram_users, receipts, receipt_items, user_receipts, now, handlers>>

\* handleRegister: 400 for a missing field, a malformed address or a password
\* of fewer than six characters; then 409 when the email exists; else
\* createUser, signToken and 201
HandleRegister(body) ==
  LET email == IF body.email = NULL THEN <<"", "", "">> ELSE TheVal(body.email)
      answer(status) ==
        [Step("handleRegister", "request", "", email, status) EXCEPT !.body = Val(body)]
  IN
  /\ IF \/ body.email = NULL \/ email = <<"", "", "">>
        \/ ~TruthyStr(body.password) \/ ~TruthyStr(body.name)
     THEN /\ last' = answer("400")
          /\ UNCHANGED users
     ELSE IF ~IsValidEmail(email)
     THEN /\ last' = answer("400")
          /\ UNCHANGED users
     ELSE IF Len(TheVal(body.password)) < 6
     THEN /\ last' = answer("400")
          /\ UNCHANGED users
     ELSE IF FindUserByEmail(email) # {}
     THEN /\ last' = answer("409")
          /\ UNCHANGED users
     ELSE /\ Cardinality(RestUsers) < MaxRestUsers
          /\ users' = CreateUser(email).users
          /\ last' = [answer("201") EXCEPT !.uid = Val(CreateUser(email).id)]
  /\ UNCHANGED <<telegram_users, receipts, receipt_items, user_receipts, now, handlers>>

\* a handler or route called with its message or request directly, as server.ts
\* does for a request and the test suites do for a message: the poll loop is
\* not part of the step
Direct(A) == A /\ UNCHANGED bot

Sp == <<" ">>
Slots == 1..MaxInFlight
Tea == <<"t", "e", "a", " ", "5">>

(***************************************************************************)
(* SpecProv: provisioning.  Both chats send /start, /setkey with and       *)
(* without a token, photos and texts; a REST client registers accounts,    *)
(* one of them under the handle of chat 101; the bridge answers with text  *)
(* that is not JSON.                                                       *)
(***************************************************************************)
ProvTexts == {S_start, S_setkey, S_setkey \o Sp \o K1, Tea}

ProvMsgs == {Text(c, t) : c \in Chats, t \in ProvTexts} \cup {Photo(c, NULL) : c \in Chats}

NextProv ==
  \/ \E msg \in ProvMsgs :
       \/ Direct(HandleStart(msg))
       \/ Direct(HandleSetKey(msg))
       \/ Direct(HandlePhoto(msg))
       \/ Direct(HandleTextReceipt(msg))
  \/ \E s \in Slots, ok \in BOOLEAN : Direct(TypingDone(s, ok))
  \/ \E s \in Slots, outcome \in {"rejects", "no_file_path", "ok"} : Direct(PhotoFetch(s, outcome))
  \/ \E s \in Slots : Direct(AnalyzeReturn(s, NotJson, U1, now))
  \/ \E email \in RestEmails : Direct(HandleRegister(RegisterBody(email)))

SpecProv == Init /\ [][NextProv]_vars

(***************************************************************************)
(* Vocabulary of the properties.                                           *)
(***************************************************************************)
\* the session rows of a chat, and the credential a chat has stored
\* ({} when there is no session or the column is NULL)
SessionOf(c) == {t \in telegram_users : t.chat_id = c}
StoredCred(c) == UNION {t.google_api_key : t \in SessionOf(c)}

\* the step just taken started a handler that calls getOrCreateTelegramUser
IsProvisioning(l) ==
  /\ l.at = "dispatch"
  /\ l.op \in {"handleStart", "handleSetKey", "handlePhoto", "handleTextReceipt"}

\* a /setkey text without a second whitespace-separated token
NoSecondToken(text) == Len(SplitWs(text)) < 2 \/ SplitWs(text)[2] = <<>>

(***************************************************************************)
(* C1  Provisioning is idempotent.                                         *)
(***************************************************************************)
\* a chat has at most one session row and at most one account under its
\* handle tg_<chatId>@telegram.local, and the session points at that account
C1_Shape ==
  \A c \in Chats :
    /\ Cardinality(SessionOf(c)) <= 1
    /\ Cardinality({u \in users : u.email = TgEmail(c)}) <= 1
    /\ \A t \in SessionOf(c) : \E u \in users : u.id = t.user_id /\ u.email = TgEmail(c)

\* a session keeps its account id for ever; a call of getOrCreateTelegramUser
\* for a chat that has a session returns that session's account id, and any
\* call that returns, returns the account id of the chat's session
C1_Step ==
  \A c \in Chats :
    /\ \A t \in SessionOf(c) : \E t2 \in SessionOf(c)' : t2.user_id = t.user_id
    /\ (IsProvisioning(last') /\ last'.chat = c) =>
         /\ SessionOf(c) # {} =>
              /\ ~last'.threw
              /\ last'.uid = {t.user_id : t \in SessionOf(c)}
         /\ ~last'.threw => last'.uid = {t.user_id : t \in SessionOf(c)'}

\* C1: for one chat id, any number of getOrCreateTelegramUser calls (made by
\* /start, /setkey, photo or text events) return the same account id, and
\* there is never more than one session row or more than one backing account
\* for the chat.
C1_ProvisioningIdempotent == []C1_Shape /\ [][C1_Step]_vars

\* chat 101 stored a credential with an earlier /setkey, a later /setkey
\* without token provisioned again and got the account id of the session,
\* while the other chat has an account of its own
C1_Witness ==
  /\ last.op = "handleSetKey" /\ last.reply = "setkey_usage" /\ last.chat = "101"
  /\ StoredCred("101") = Val(K1)
  /\ last.uid = {t.user_id : t \in SessionOf("101")}
  /\ SessionOf("202") # {}
  /\ Cardinality(users) >= 2

(***************************************************************************)
(* C5  /setkey without a token.                                            *)
(***************************************************************************)
\* C5: handling a /setkey event that has no second token sends the
\* usage-error reply and leaves the chat's stored credential as it was.
C5_SetKeyUsage ==
  [][(last'.op = "handleSetKey" /\ last'.at = "dispatch" /\ NoSecondToken(last'.text)) =>
       /\ last'.reply = "setkey_usage"
       /\ \A c \in Chats : c = last'.chat => StoredCred(c)' = StoredCred(c)]_vars

\* what the handler does keep in every run: without a second token the
\* credential of every chat is left as it was, whether or not the reply is sent
C5_CredentialKept ==
  [][(last'.op = "handleSetKey" /\ last'.at = "dispatch" /\ NoSecondToken(last'.text)) =>
       \A c \in Chats : StoredCred(c)' = StoredCred(c)]_vars

\* a /setkey without token that ended in the exception of createUser: chat
\* 101 has no session and its handle is taken by an account registered over REST
C5_Witness ==
  /\ last.op = "handleSetKey" /\ last.chat = "101" /\ NoSecondToken(last.text)
  /\ last.threw /\ last.reply = "none"
  /\ SessionOf("101") = {}
  /\ \E u \in users : u.email = TgEmail("101")

(***************************************************************************)
(* SpecKey: the credential.  Both chats send /setkey with nothing after    *)
(* the blank, with one token and with two, and texts; chat 101 also sends  *)
(* a photo; the handlers that pass the credential check run on while       *)
(* further /setkey events are handled.                                     *)
(***************************************************************************)
KeyTexts == {S_setkey \o Sp, S_setkey \o Sp \o K1, S_setkey \o Sp \o K2 \o Sp \o K1, Tea}

KeyMsgs == {Text(c, t) : c \in Chats, t \in KeyTexts} \cup {Photo("101", NULL)}

NextKey ==
  \/ \E msg \in KeyMsgs :
       \/ Direct(HandleSetKey(msg))
       \/ Direct(HandlePhoto(msg))
       \/ Direct(HandleTextReceipt(msg))
  \/ \E s \in Slots, ok \in BOOLEAN : Direct(TypingDone(s, ok))
  \/ \E s \in Slots, outcome \in {"rejects", "no_file_path", "ok"} : Direct(PhotoFetch(s, outcome))
  \/ \E s \in Slots : Direct(AnalyzeReturn(s, NotJson, U1, now))

SpecKey == Init /\ [][NextKey]_vars

(***************************************************************************)
(* C6  The last /setkey token wins.                                        *)
(***************************************************************************)
\* a /setkey with a token leaves that token as the credential of the chat's
\* session; every other step leaves the credential of every session alone
\* (a session that is created starts without one)
C6_Step ==
  \A c \in Chats :
    IF /\ last'.op = "handleSetKey" /\ last'.at = "dispatch" /\ last'.chat = c
       /\ ~NoSecondToken(last'.text)
    THEN SessionOf(c)' # {} => StoredCred(c)' = Val(SplitWs(last'.text)[2])
    ELSE StoredCred(c)' = StoredCred(c)

\* C6: after any sequence of /setkey events with a token for one chat, the
\* session's stored credential equals the token of the last such event in
\* dispatch order.
C6_LastTokenWins == [][C6_Step]_vars

\* the /setkey of chat 101 just handled carried two tokens, k2 and k1, and
\* left the first of them as the credential; chat 202 keeps its own, k1
C6_Witness ==
  /\ last.op = "handleSetKey" /\ last.reply = "key_updated" /\ last.chat = "101"
  /\ last.text = S_setkey \o Sp \o K2 \o Sp \o K1
  /\ StoredCred("101") = Val(K2)
  /\ StoredCred("202") = Val(K1)

(***************************************************************************)
(* SpecExtract: the photo and text pipelines.  Both chats store a          *)
(* credential and describe a receipt in text, chat 101 also sends a        *)
(* captioned photo and replaces its credential; the bridge throws, returns *)
(* text that is not JSON, or JSON with and without an error field; a REST  *)
(* client may take the handle of chat 202.                                 *)
(***************************************************************************)
ExtractMsgs ==
  {Text(c, S_setkey \o Sp \o K1) : c \in Chats} \cup {Text(c, Tea) : c \in Chats}
    \cup {Photo("101", Val(Caption)), Text("101", S_setkey \o Sp \o K2)}

\* the ids crypto.randomUUID() returns, in the order it returns them: the
\* n-th receipt created gets a1b2c3d4-00<n>, eight hexadecimal characters, a
\* dash and the group that tells them apart
HexDigits == <<"0", "1", "2", "3", "4", "5", "6", "7", "8", "9",
               "a", "b", "c", "d", "e", "f">>
Uuid(n) == <<"a", "1", "b", "2", "c", "3", "d", "4", "-", "0", "0",
             HexDigits[(n \div 16) + 1], HexDigits[(n % 16) + 1]>>
NextUuid == Uuid(Cardinality(receipts) + 1)

FailingRaws == {BridgeThrows, NotJson, Json(RError)}
SavingRaws == {Json(R110), Json(REmptyError), Json(RBadItem)}

NextExtract ==
  \/ \E msg \in ExtractMsgs :
       \/ Direct(HandleSetKey(msg))
       \/ Direct(HandlePhoto(msg))
       \/ Direct(HandleTextReceipt(msg))
  \/ \E s \in Slots, ok \in BOOLEAN : Direct(TypingDone(s, ok))
  \/ \E s \in Slots, outcome \in {"rejects", "no_file_path", "ok"} : Direct(PhotoFetch(s, outcome))
  \/ \E s \in Slots, raw \in FailingRaws : Direct(AnalyzeReturn(s, raw, U1, now))
  \/ \E s \in Slots, raw \in SavingRaws :
       Cardinality(receipts) < MaxReceipts /\ Direct(AnalyzeReturn(s, raw, NextUuid, now))
  \/ Direct(HandleRegister(RegisterBody(TgEmail("202"))))

SpecExtract == Init /\ [][NextExtract]_vars

\* the chat has a credential stored
HasCredential(c) == StoredCred(c) # {} /\ StoredCred(c) # {<<>>}

\* the step just taken is the start of handlePhoto or handleTextReceipt
IsExtraction(l) == l.at = "dispatch" /\ l.op \in {"handlePhoto", "handleTextReceipt"}

\* the step just taken ended in a call of the Extraction Bridge:
\* model.generateContent in handleTextReceipt, analyzeReceiptImage in handlePhoto
BridgeCalled(l) ==
  \/ l.op = "handleTextReceipt" /\ l.at = "typing" /\ ~l.threw
  \/ l.op = "handlePhoto" /\ l.at = "fetch" /\ l.reply = "analyzing"

(***************************************************************************)
(* C2  Credential gate.                                                    *)
(***************************************************************************)
\* every bridge call carries a non-empty credential, and so does every
\* handler that waits at an await on its way to the bridge
C2_Calls ==
  /\ BridgeCalled(last) => TruthyStr(last.key)
  /\ \A s \in Slots : handlers[s].kind # "idle" => TruthyStr(handlers[s].apiKey)

\* a photo or text event of a chat whose session has no credential is answered
\* with the /setkey instruction, starts no handler and writes no receipt; a
\* handler that is started holds the credential the session stores at that
\* moment, keeps it while it waits, and hands it to the bridge
C2_Step ==
  /\ \A c \in Chats :
       /\ (IsExtraction(last') /\ last'.chat = c /\ SessionOf(c)' # {} /\ ~HasCredential(c)') =>
            /\ last'.reply = "need_key"
            /\ UNCHANGED <<handlers, receipts, receipt_items, user_receipts>>
       /\ (IsExtraction(last') /\ last'.chat = c /\ handlers' # handlers) =>
            \E s \in Slots : /\ handlers[s].kind = "idle"
                             /\ handlers'[s].chat = c
                             /\ handlers'[s].apiKey = StoredCred(c)
  /\ \A s \in Slots :
       (handlers[s].kind # "idle" /\ handlers'[s].kind # "idle") =>
          handlers'[s].apiKey = handlers[s].apiKey
  /\ BridgeCalled(last') =>
       \E s \in Slots : /\ handlers[s].pc \in {"typing", "fetch"}
                        /\ handlers'[s].pc = "analyze"
                        /\ last'.key = handlers[s].apiKey

\* C2: when the session of the chat has no credential set, handling a photo
\* event or a free-form text event sends the /setkey instruction, never calls
\* the Extraction Bridge and writes no receipt; equivalently, every bridge
\* call made by the dispatcher carries a non-empty credential that is the
\* credential the session stored when the handler read it.
C2_CredentialGate == []C2_Calls /\ [][C2_Step]_vars

\* chat 101 sent a photo while its session had no credential and was told to
\* use /setkey, in a run in which the other chat did get a receipt saved
C2_Witness ==
  /\ last.op = "handlePhoto" /\ last.reply = "need_key" /\ last.chat = "101"
  /\ SessionOf("101") # {} /\ ~HasCredential("101")
  /\ \A s \in Slots : handlers[s].kind = "idle"
  /\ receipts # {}
  /\ \A l \in user_receipts : \A t \in SessionOf("101") : l.user_id # t.user_id

(***************************************************************************)
(* C3  Text that is not JSON.                                              *)
(***************************************************************************)
\* C3: an extraction result that is not JSON yields the parse-error reply and
\* creates no receipt, item or ownership row.
C3_NonJson ==
  [][(last'.at = "analyze" /\ last'.raw = "garbage") =>
       /\ last'.reply = "parse_error"
       /\ UNCHANGED <<receipts, receipt_items, user_receipts>>]_vars

\* the bridge returned text that is not JSON to a handler of chat 101, which
\* holds a receipt from an earlier extraction; the store still has just that
C3_Witness ==
  /\ last.at = "analyze" /\ last.raw = "garbage" /\ last.reply = "parse_error"
  /\ last.chat = "101"
  /\ Cardinality(receipts) = 1 /\ Cardinality(user_receipts) = 1

QueryPrefixes == {P_a, P_a1, P_full1, P_none, <<>>}
Underscore == <<"_">>

QueryMsgs ==
  {Text(c, S_setkey \o Sp \o K1) : c \in Chats} \cup {Text(c, Tea) : c \in Chats}
    \cup {Text("101", S_delete \o Sp \o p) : p \in QueryPrefixes \ {P_none}}
    \cup {Text("101", S_receipt \o Underscore \o p) : p \in QueryPrefixes \cup {P_upper}}

NextQuery ==
  \/ \E msg \in QueryMsgs :
       \/ Direct(HandleSetKey(msg))
       \/ Direct(HandleTextReceipt(msg))
       \/ Direct(HandleDelete(msg))
       \/ Direct(HandleReceiptDetail(msg))
       \/ Direct(UnknownCommand(msg))
  \/ \E s \in Slots : Direct(TypingDone(s, TRUE))
  \/ \E s \in Slots, id \in Uuids, t \in 0..MaxTime :
       Cardinality(receipts) < MaxReceipts /\ Direct(AnalyzeReturn(s, Json(R110), id, t))

SpecQuery == Init /\ [][NextQuery]_vars

\* the account of a chat's session, the ids of the receipts linked to it, and
\* those among them that start with p
AccountOf(c) == {t.user_id : t \in SessionOf(c)}
OwnedIds(c) ==
  {l.receipt_id : l \in {x \in user_receipts : x.user_id \in AccountOf(c)}}
    \cap {r.id : r \in receipts}
Matching(c, p) == {id \in OwnedIds(c) : StartsWith(id, p)}

\* p is a non-empty string of hexadecimal digits
IsHexString(p) == p # <<>> /\ \A i \in 1..Len(p) : IsHex(p[i])

\* the argument of a /delete text that has one
HasArg(text) == Len(SplitWs(text)) >= 2
Arg(text) == SplitWs(text)[2]

(***************************************************************************)
(* C7  /delete, then /receipt_ with the same prefix.                       *)
(***************************************************************************)
\* a /delete whose prefix matches a receipt of the account removes one of the
\* matching receipts: its row, its items and every link to it, nothing else
C7_DeleteStep ==
  \A c \in Chats :
    (/\ last'.op = "handleDelete" /\ last'.chat = c /\ SessionOf(c) # {}
     /\ HasArg(last'.text) /\ Matching(c, Arg(last'.text)) # {}) =>
       \E id \in Matching(c, Arg(last'.text)) :
         /\ last'.reply = "deleted" /\ last'.shown = <<id>>
         /\ receipts' = {r \in receipts : r.id # id}
         /\ user_receipts' = {l \in user_receipts : l.receipt_id # id}
         /\ receipt_items' = {i \in receipt_items : i.receipt_id # id}

\* the step just taken handles /receipt_<prefix> of the chat whose /delete
\* <prefix> was handled, with a match, in the step before
LookupAfterDelete ==
  /\ last.op = "handleDelete" /\ last.reply = "deleted"
  /\ last'.at = "dispatch" /\ last'.chat = last.chat
  /\ last'.text = S_receipt \o Underscore \o Arg(last.text)

\* C7 as stated: after /delete <prefix> matches a receipt of the account,
\* both the ownership link and the receipt no longer exist, and a subsequent
\* /receipt_<same prefix> by that chat replies with the not-found message
\* (read for the prefixes /receipt_ can take up whole: non-empty strings of
\* hexadecimal digits).
C7_DeleteThenNotFound ==
  [][/\ C7_DeleteStep
     /\ (LookupAfterDelete /\ IsHexString(Arg(last.text))) => last'.reply = "not_found"]_vars

\* C7 amended: after /delete <prefix> matches a receipt of the account, the
\* receipt it deleted, its items and its ownership link no longer exist, and
\* a /receipt_<same prefix> by that chat that follows never renders the
\* deleted receipt; when the prefix is a non-empty string of hexadecimal
\* digits the reply is the not-found message exactly when no other receipt of
\* the account has an id that starts with the prefix.
C7_DeleteThenLookup ==
  [][/\ C7_DeleteStep
     /\ LookupAfterDelete =>
          /\ last'.shown # last.shown
          /\ IsHexString(Arg(last.text)) =>
               (last'.reply = "not_found" <=> Matching(last.chat, Arg(last.text)) = {})]_vars

\* chat 101 owned a1b2c3d4-0001 and a9000000-0003; its /delete a removed the
\* first, row and link, and the second is still there
C7_Witness ==
  /\ last.op = "handleDelete" /\ last.reply = "deleted" /\ last.chat = "101"
  /\ last.text = S_delete \o Sp \o P_a /\ last.shown = <<U1>>
  /\ \A r \in receipts : r.id # U1
  /\ \A l \in user_receipts : l.receipt_id # U1
  /\ OwnedIds("101") = {U3}

(***************************************************************************)
(* C8  /receipt_ with a prefix that matches nothing.                       *)
(***************************************************************************)
\* C8: handling /receipt_<prefix> for a chat with a session, where the prefix
\* the command captures matches no receipt id of the account, replies with the
\* not-found message and leaves receipts, items and ownership unchanged.
C8_LookupMiss ==
  [][\A c \in Chats :
       (/\ last'.op = "handleReceiptDetail" /\ last'.chat = c /\ SessionOf(c) # {}
        /\ Matching(c, TheVal(ReceiptMatch(last'.text))) = {}) =>
          /\ last'.reply = "not_found"
          /\ UNCHANGED store]_vars

\* chat 101 asked for /receipt_a1b2c3d4 and got not-found: it owns a receipt
\* with another id, and the receipt with that id belongs to chat 202
C8_Witness ==
  /\ last.op = "handleReceiptDetail" /\ last.reply = "not_found" /\ last.chat = "101"
  /\ last.text = S_receipt \o Underscore \o P_a1
  /\ OwnedIds("101") = {U3}
  /\ OwnedIds("202") = {U1}

(***************************************************************************)
(* SpecStats: /stats.  Both chats store a credential, get receipts saved   *)
(* from text and ask for their statistics; the extraction returns a total  *)
(* of 110, a total of 220, or no total (the prompt asks for null where a   *)
(* field is missing or illegible).                                         *)
(***************************************************************************)
StatsMsgs ==
  {Text(c, S_setkey \o Sp \o K1) : c \in Chats} \cup {Text(c, Tea) : c \in Chats}
    \cup {Text(c, S_stats) : c \in Chats}

NextStats ==
  \/ \E msg \in StatsMsgs :
       \/ Direct(HandleSetKey(msg))
       \/ Direct(HandleTextReceipt(msg))
       \/ Direct(HandleStats(msg))
  \/ \E s \in Slots : Direct(TypingDone(s, TRUE))
  \/ \E s \in Slots, raw \in {Json(R110), Json(R220), Json(RNoTotal)} :
       Cardinality(receipts) < MaxReceipts /\ Direct(AnalyzeReturn(s, raw, NextUuid, now))

SpecStats == Init /\ [][NextStats]_vars

\* the receipts linked to an account, and the sum of their total amounts
\* (a receipt without a total adds nothing)
LinkedReceipts(userId) ==
  {r \in receipts : \E l \in user_receipts : l.user_id = userId /\ l.receipt_id = r.id}

RECURSIVE SumTotals(_)
SumTotals(rs) ==
  IF rs = {} THEN 0
  ELSE LET r == CHOOSE x \in rs : TRUE
       IN  (IF r.total_amount = NULL THEN 0 ELSE TheVal(r.total_amount))
             + SumTotals(rs \ {r})

(***************************************************************************)
(* C10  getUserReceiptStats.                                               *)
(***************************************************************************)
\* what /stats renders is what getUserReceiptStats returns for the account
C10_Rendered ==
  (last.op = "handleStats" /\ last.reply = "stats") =>
     \A t \in SessionOf(last.chat) : last.stats = GetUserReceiptStats(DB, t.user_id)

\* C10 as stated: for every account, the count equals the number of receipts
\* linked to it, the total equals the sum of their total amounts, and the
\* mean equals the total divided by the count (zero when there is none).
C10_MeanPerReceipt ==
  /\ C10_Rendered
  /\ \A u \in users :
       LET stats == GetUserReceiptStats(DB, u.id)
           linked == LinkedReceipts(u.id)
       IN  /\ stats.totalReceipts = Cardinality(linked)
           /\ stats.totalAmount = SumTotals(linked)
           /\ IF linked = {} THEN stats.averageAmount.num = 0
              ELSE stats.averageAmount.num * Cardinality(linked)
                     = SumTotals(linked) * stats.averageAmount.den

\* C10 amended: for every account, the count equals the number of receipts
\* linked to it, the total equals the sum of the total amounts they have, and
\* the mean equals the total divided by the number of linked receipts that
\* have a total amount (zero when none has); it is total / count whenever
\* every linked receipt has a total amount.
C10_MeanPerTotal ==
  /\ C10_Rendered
  /\ \A u \in users :
       LET stats == GetUserReceiptStats(DB, u.id)
           linked == LinkedReceipts(u.id)
           valued == {r \in linked : r.total_amount # NULL}
       IN  /\ stats.totalReceipts = Cardinality(linked)
           /\ stats.totalAmount = SumTotals(linked)
           /\ IF valued = {} THEN stats.averageAmount.num = 0
              ELSE stats.averageAmount.num * Cardinality(valued)
                     = SumTotals(linked) * stats.averageAmount.den
           /\ (valued = linked /\ linked # {}) =>
                 stats.averageAmount.num * stats.totalReceipts
                   = stats.totalAmount * stats.averageAmount.den

\* /stats of chat 101, which owns a receipt of 110 and one without a total:
\* count 2, total 110, and a mean of 110 where total / count is 55
C10_Witness ==
  /\ last.op = "handleStats" /\ last.reply = "stats" /\ last.chat = "101"
  /\ last.stats.totalReceipts = 2
  /\ last.stats.totalAmount = 110
  /\ last.stats.averageAmount = [num |-> 110, den |-> 1]

(***************************************************************************)
(* C11  Statistics of an account without receipts.                         *)
(***************************************************************************)
\* C11: for an account with zero linked receipts getUserReceiptStats returns
\* count 0, total 0 and mean 0 (a quotient with a non-zero denominator, no
\* division by zero), and /stats of a chat whose account has no linked
\* receipt replies with exactly these.
C11_ZeroStats ==
  /\ \A u \in users :
       LinkedReceipts(u.id) = {} =>
         /\ GetUserReceiptStats(DB, u.id) = NoStats
         /\ GetUserReceiptStats(DB, u.id).averageAmount.den # 0
  /\ \A c \in Chats :
       (/\ last.op = "handleStats" /\ last.chat = c /\ SessionOf(c) # {}
        /\ \A t \in SessionOf(c) : LinkedReceipts(t.user_id) = {}) =>
          /\ last.reply = "stats" /\ ~last.threw
          /\ last.stats.totalReceipts = 0
          /\ last.stats.totalAmount = 0
          /\ last.stats.averageAmount = [num |-> 0, den |-> 1]

\* /stats of chat 101, whose account has no receipt, answered 0, 0 and 0
\* while the account of chat 202 holds two receipts
C11_Witness ==
  /\ last.op = "handleStats" /\ last.reply = "stats" /\ last.chat = "101"
  /\ SessionOf("101") # {}
  /\ \A t \in SessionOf("101") : LinkedReceipts(t.user_id) = {}
  /\ \A t \in SessionOf("202") : Cardinality(LinkedReceipts(t.user_id)) = 2
  /\ SessionOf("202") # {}
  /\ last.stats = NoStats

(***************************************************************************)
(* SpecHistory: /history.  Chat 101 stores a credential, gets up to        *)
(* MaxHistory receipts saved from text, two more than /history shows, and  *)
(* asks for its history at any moment.  The clock advances between two     *)
(* links, or stands still (at most MaxTies times), which leaves the order  *)
(* of the two links to the store.                                          *)
(***************************************************************************)
HistoryMsgs ==
  {Text("101", S_setkey \o Sp \o K1), Text("101", Tea), Text("101", S_history)}

\* links that carry an added_at another link carried before them
Ties == Cardinality(user_receipts) - Cardinality({l.added_at : l \in user_receipts})

NextHistory ==
  \/ \E msg \in HistoryMsgs :
       \/ Direct(HandleSetKey(msg))
       \/ Direct(HandleTextReceipt(msg))
       \/ Direct(HandleHistory(msg))
  \/ \E s \in Slots : Direct(TypingDone(s, TRUE))
  \/ \E s \in Slots, t \in {now, now + 1} :
       /\ Cardinality(receipts) < MaxHistory
       /\ IF user_receipts = {} THEN t = now
          ELSE t = now => Ties < MaxTies
       /\ Direct(AnalyzeReturn(s, Json(R110), NextUuid, t))

SpecHistory == Init /\ [][NextHistory]_vars

\* the added_at of the link between the account of chat c and receipt id
AddedAt(c, id) ==
  LET l == CHOOSE x \in user_receipts : x.user_id \in AccountOf(c) /\ x.receipt_id = id
  IN  l.added_at

(***************************************************************************)
(* C9  /history.                                                           *)
(***************************************************************************)
\* C9: for an account with n linked receipts, /history renders exactly
\* min(n, 10) of them (the no-receipts message when n is 0), each once, in
\* descending order of added_at, and no receipt it leaves out was added after
\* one it renders: they are the most recently added.
C9_History ==
  LET c == last.chat
      n == Cardinality(OwnedIds(c))
      shown == last.shown
  IN  (last.op = "handleHistory" /\ SessionOf(c) # {}) =>
        /\ last.reply = (IF n = 0 THEN "no_receipts" ELSE "history")
        /\ Len(shown) = Min(n, HistoryLimit)
        /\ \A i \in 1..Len(shown) : shown[i] \in OwnedIds(c)
        /\ \A i, j \in 1..Len(shown) : i < j =>
             /\ shown[i] # shown[j]
             /\ AddedAt(c, shown[i]) >= AddedAt(c, shown[j])
        /\ \A id \in OwnedIds(c) \ {shown[i] : i \in 1..Len(shown)} :
             \A i \in 1..Len(shown) : AddedAt(c, id) <= AddedAt(c, shown[i])

\* /history of an account with twelve receipts rendered ten, two of them
\* added at the same moment, and left out the two that were added first
C9_Witness ==
  /\ last.op = "handleHistory" /\ last.reply = "history" /\ last.chat = "101"
  /\ Cardinality(OwnedIds("101")) = HistoryLimit + 2
  /\ Len(last.shown) = HistoryLimit
  /\ \E i \in 1..(Len(last.shown) - 1) :
       AddedAt("101", last.shown[i]) = AddedAt("101", last.shown[i + 1])
  /\ {Uuid(1), Uuid(2)} \cap {last.shown[i] : i \in 1..Len(last.shown)} = {}

\* the links between account userId and receipt receiptId
Links(userId, receiptId) ==
  {l \in user_receipts : l.user_id = userId /\ l.receipt_id = receiptId}

(***************************************************************************)
(* lib/auth.ts: tokens.  A token is its payload (userId, exp) and whether  *)
(* its signature is the HMAC of header and payload under JWT_SECRET; a     *)
(* string that is not of the form header.payload.signature is "garbage".   *)
(* The clock of the REST specifications counts in units of the token       *)
(* lifetime.                                                               *)
(***************************************************************************)
\* JWT_EXPIRES_IN (7 days), in ticks of the clock
JWT_EXPIRES_IN == 1

\* signToken at time t
SignToken(userId, t) ==
  [kind |-> "jwt", signed |-> TRUE, userId |-> Val(userId), exp |-> Val(t + JWT_EXPIRES_IN)]

\* verifyToken that does not compare the signature
VerifyToken_Unsigned(token) ==
  IF token.kind # "jwt" THEN NULL
  ELSE IF token.exp # NULL /\ TheVal(token.exp) < now THEN NULL
  ELSE Val([userId |-> token.userId])

\* verifyToken: null when the signature differs, when the payload does not
\* parse, or when `payload.exp && payload.exp < Date.now()`
VerifyToken(token) ==
  IF token.kind # "jwt" THEN NULL
  ELSE IF ~token.signed THEN NULL
  ELSE IF token.exp # NULL /\ TheVal(token.exp) < now THEN NULL
  ELSE Val([userId |-> token.userId])

(***************************************************************************)
(* routes/receipt.ts                                                       *)
(***************************************************************************)
\* Authorization headers: absent, or a scheme and what follows it
NoHeader == NULL
Bearer(token) == Val([scheme |-> "Bearer ", token |-> token])
OtherScheme(token) == Val([scheme |-> "Basic ", token |-> token])
EmptyToken == [kind |-> "empty", signed |-> FALSE, userId |-> NULL, exp |-> NULL]
GarbageToken == [kind |-> "garbage", signed |-> FALSE, userId |-> NULL, exp |-> NULL]

\* getTokenFromHeader: the text after "Bearer ", null without such a header
GetTokenFromHeader(auth) ==
  IF auth = NULL THEN NULL
  ELSE IF TheVal(auth).scheme # "Bearer " THEN NULL
  ELSE Val(TheVal(auth).token)

\* authenticateUser: payload.userId, or null (the callers test `!userId`)
AuthenticateUser(auth) ==
  LET token == GetTokenFromHeader(auth)
  IN  IF token = NULL \/ TheVal(token).kind = "empty" THEN NULL
      ELSE LET payload == VerifyToken(TheVal(token))
           IN  IF payload = NULL THEN NULL ELSE TheVal(payload).userId

\* getUserReceiptById without `ur.user_id = ?`: the receipt with that id,
\* whoever it is linked to
GetUserReceiptById_AnyOwner(db, userId, receiptId) ==
  {r \in JoinedRows_AllUsers(db, userId) : r.id = receiptId}

\* getUserReceiptById: the joined row of the account with that receipt id
GetUserReceiptById(db, userId, receiptId) ==
  {r \in JoinedRows(db, userId) : r.id = receiptId}

\* updateUserReceiptNotes: UPDATE user_receipts SET notes = ?
\* WHERE user_id = ? AND receipt_id = ?
UpdateUserReceiptNotes(db, userId, receiptId, notes) ==
  [db EXCEPT !.user_receipts =
     {IF l.user_id = userId /\ l.receipt_id = receiptId
      THEN [l EXCEPT !.notes = Val(notes)] ELSE l : l \in @}]

\* the record of a request: the route, the header, the authenticated account
\* and the status of the response
Response(op, auth, userId, status) ==
  [Step(op, "request", "", <<>>, status) EXCEPT !.auth = auth, !.uid = userId]

Unauthorized(op, auth) ==
  /\ last' = Response(op, auth, NULL, "401")
  /\ UNCHANGED <<store, now, handlers>>

\* POST /api/receipts with a body {receipt, notes}; receipt absent is NULL
HandleSaveReceipt(auth, receipt, notes, id) ==
  LET userId == AuthenticateUser(auth)
      saved == CreateReceiptForUser(DB, TheVal(userId), TheVal(receipt), notes, id, now)
  IN  IF userId = NULL THEN Unauthorized("handleSaveReceipt", auth)
      ELSE IF receipt = NULL
      THEN /\ last' = Response("handleSaveReceipt", auth, userId, "400")
           /\ UNCHANGED <<store, now, handlers>>
      ELSE /\ id \notin {r.id : r \in receipts}
           /\ SetDB(saved.db)
           /\ last' = IF saved.threw THEN Response("handleSaveReceipt", auth, userId, "500")
                      ELSE [Response("handleSaveReceipt", auth, userId, "201")
                              EXCEPT !.shown = <<id>>]
           /\ UNCHANGED <<users, telegram_users, now, handlers>>

\* GET /api/receipts
HandleGetUserReceipts(auth) ==
  LET userId == AuthenticateUser(auth)
  IN  IF userId = NULL THEN Unauthorized("handleGetUserReceipts", auth)
      ELSE /\ \E rs \in GetUserReceipts(DB, TheVal(userId)) :
                last' = [Response("handleGetUserReceipts", auth, userId, "200")
                           EXCEPT !.shown = Ids(rs)]
           /\ UNCHANGED <<store, now, handlers>>

\* GET /api/receipts/:id
HandleGetReceiptById(auth, receiptId) ==
  LET userId == AuthenticateUser(auth)
  IN  IF userId = NULL THEN Unauthorized("handleGetReceiptById", auth)
      ELSE LET receipt == GetUserReceiptById(DB, TheVal(userId), receiptId)
           IN  /\ last' = IF receipt = {}
                          THEN [Response("handleGetReceiptById", auth, userId, "404")
                                  EXCEPT !.text = receiptId]
                          ELSE [Response("handleGetReceiptById", auth, userId, "200")
                                  EXCEPT !.text = receiptId,
                                         !.shown = <<TheVal(receipt).id>>]
               /\ UNCHANGED <<store, now, handlers>>

\* handleDeleteReceipt without the check that the caller owns the receipt
HandleDeleteReceipt_NoOwnerCheck(auth, receiptId) ==
  LET userId == AuthenticateUser(auth)
  IN  IF userId = NULL THEN Unauthorized("handleDeleteReceipt", auth)
      ELSE /\ SetDB(DeleteReceipt(
                 UnlinkReceiptFromUser(DB, TheVal(userId), receiptId), receiptId))
           /\ last' = [Response("handleDeleteReceipt", auth, userId, "200")
                         EXCEPT !.text = receiptId, !.shown = <<receiptId>>]
           /\ UNCHANGED <<users, telegram_users, now, handlers>>

\* DELETE /api/receipts/:id
HandleDeleteReceipt(auth, receiptId) ==
  LET userId == AuthenticateUser(auth)
  IN  IF userId = NULL THEN Unauthorized("handleDeleteReceipt", auth)
      ELSE LET receipt == GetUserReceiptById(DB, TheVal(userId), receiptId)
           IN  IF receipt = {}
               THEN /\ last' = [Response("handleDeleteReceipt", auth, userId, "404")
                                  EXCEPT !.text = receiptId]
                    /\ UNCHANGED <<store, now, handlers>>
               ELSE /\ SetDB(DeleteReceipt(
                          UnlinkReceiptFromUser(DB, TheVal(userId), receiptId), receiptId))
                    /\ last' = [Response("handleDeleteReceipt", auth, userId, "200")
                                  EXCEPT !.text = receiptId, !.shown = <<receiptId>>]
                    /\ UNCHANGED <<users, telegram_users, now, handlers>>

\* PUT /api/receipts/:id/notes with a body {notes}
HandleUpdateReceiptNotes(auth, receiptId, notes) ==
  LET userId == AuthenticateUser(auth)
      after == UpdateUserReceiptNotes(DB, TheVal(userId), receiptId, notes)
  IN  IF userId = NULL THEN Unauthorized("handleUpdateReceiptNotes", auth)
      ELSE /\ SetDB(after)
           /\ last' = [Response("handleUpdateReceiptNotes", auth, userId,
                                 IF Links(TheVal(userId), receiptId) = {} THEN "404" ELSE "200")
                         EXCEPT !.text = receiptId]
           /\ UNCHANGED <<users, telegram_users, now, handlers>>

\* GET /api/receipts/stats
HandleGetReceiptStats(auth) ==
  LET userId == AuthenticateUser(auth)
  IN  IF userId = NULL THEN Unauthorized("handleGetReceiptStats", auth)
      ELSE /\ last' = [Response("handleGetReceiptStats", auth, userId, "200")
                         EXCEPT !.stats = GetUserReceiptStats(DB, TheVal(userId))]
           /\ UNCHANGED <<store, now, handlers>>

\* time passes
Tick ==
  /\ now' = now + 1
  /\ last' = Step("tick", "", "", <<>>, "none")
  /\ UNCHANGED <<store, handlers>>

(***************************************************************************)
(* The exported functions of auth.ts and receipt-storage.ts called one by  *)
(* one with arguments of the caller's choice, as database.test.ts calls    *)
(* them.  The step record keeps the account id in uid and the receipt id   *)
(* in shown.                                                               *)
(***************************************************************************)
Call(op, userId, receiptId, threw, reply) ==
  [Step(op, "call", "", <<>>, reply) EXCEPT !.threw = threw, !.uid = userId,
                                            !.shown = receiptId]

CreateUserCall(email) ==
  LET cu == CreateUser(email)
  IN  /\ users' = cu.users
      /\ last' = [Call("createUser", IF cu.threw THEN NULL ELSE Val(cu.id), <<>>,
                       cu.threw, IF cu.threw THEN "none" ELSE "user")
                    EXCEPT !.text = email]
      /\ UNCHANGED <<telegram_users, receipts, receipt_items, user_receipts, now,
                     handlers>>

CreateReceiptCall(analysisResult, id) ==
  LET created == CreateReceipt(DB, analysisResult, id)
  IN  /\ id \notin {r.id : r \in receipts}
      /\ SetDB(created.db)
      /\ last' = [Call("createReceipt", NULL, <<id>>, created.threw,
                       IF created.threw THEN "none" ELSE "receipt")
                    EXCEPT !.body = Val(analysisResult)]
      /\ UNCHANGED <<users, telegram_users, now, handlers>>

LinkReceiptToUserCall(userId, receiptId, t) ==
  LET linked == LinkReceiptToUser(DB, userId, receiptId, NULL, t)
  IN  /\ t \in {now, now + 1}
      /\ now' = t
      /\ SetDB(linked.db)
      /\ last' = Call("linkReceiptToUser", Val(userId), <<receiptId>>, linked.threw,
                      IF linked.threw THEN "none" ELSE "link")
      /\ UNCHANGED <<users, telegram_users, handlers>>

UnlinkReceiptFromUserCall(userId, receiptId) ==
  LET after == UnlinkReceiptFromUser(DB, userId, receiptId)
  IN  /\ SetDB(after)
      /\ last' = Call("unlinkReceiptFromUser", Val(userId), <<receiptId>>, FALSE,
                      IF after.user_receipts # user_receipts THEN "true" ELSE "false")
      /\ UNCHANGED <<users, telegram_users, now, handlers>>

DeleteReceiptCall(id) ==
  LET after == DeleteReceipt(DB, id)
  IN  /\ SetDB(after)
      /\ last' = Call("deleteReceipt", NULL, <<id>>, FALSE,
                      IF after.receipts # receipts THEN "true" ELSE "false")
      /\ UNCHANGED <<users, telegram_users, now, handlers>>

CreateReceiptForUserCall(userId, analysisResult, id, t) ==
  LET saved == CreateReceiptForUser(DB, userId, analysisResult, NULL, id, t)
  IN  /\ id \notin {r.id : r \in receipts}
      /\ t \in {now, now + 1}
      /\ now' = t
      /\ SetDB(saved.db)
      /\ last' = Call("createReceiptForUser", Val(userId), <<id>>, saved.threw,
                      IF saved.threw THEN "none" ELSE "receipt")
      /\ UNCHANGED <<users, telegram_users, handlers>>

(***************************************************************************)
(* SpecStore: the store under its own interface.  Two addresses are        *)
(* registered, in either order and repeatedly; receipts are created with   *)
(* one item, or with a second item whose name is missing; any account id,  *)
(* also one no account has, is linked to and unlinked from any receipt id, *)
(* also one no receipt has; receipts are deleted.                          *)
(***************************************************************************)
StoreEmails == {<<"alice", "", "@example.com">>, <<"bob", "", "@example.com">>}
StoreUserIds == 1..(Cardinality(StoreEmails) + 1)
StoreResults == {RTwoItems, RBadItem}
StoreIds == {U1, U2}

NextStore ==
  \/ \E email \in StoreEmails : Direct(CreateUserCall(email))
  \/ \E r \in StoreResults, id \in StoreIds :
       Cardinality(receipts) < MaxReceipts /\ Direct(CreateReceiptCall(r, id))
  \/ \E u \in StoreUserIds, id \in StoreIds : Direct(LinkReceiptToUserCall(u, id, now))
  \/ \E u \in StoreUserIds, id \in StoreIds : Direct(UnlinkReceiptFromUserCall(u, id))
  \/ \E id \in StoreIds : Direct(DeleteReceiptCall(id))
  \/ \E u \in StoreUserIds, r \in StoreResults, id \in StoreIds :
       Cardinality(receipts) < MaxReceipts /\ Direct(CreateReceiptForUserCall(u, r, id, now))

SpecStore == Init /\ [][NextStore]_vars

(***************************************************************************)
(* C12  One ownership link per (account, receipt).                         *)
(***************************************************************************)
\* C12: in every reachable state there is at most one ownership link per
\* (account, receipt) pair; linkReceiptToUser for a pair that is already
\* linked throws and changes nothing, and for an existing account and an
\* existing receipt that are not linked yet it adds exactly one link, whoever
\* else is linked to that receipt.
C12_LinkUnique ==
  /\ [](\A l1, l2 \in user_receipts :
          (l1.user_id = l2.user_id /\ l1.receipt_id = l2.receipt_id) => l1 = l2)
  /\ [][\A u \in StoreUserIds, id \in StoreIds :
          (/\ last'.op = "linkReceiptToUser"
           /\ last'.uid = Val(u) /\ last'.shown = <<id>>) =>
             IF Links(u, id) # {}
             THEN last'.threw /\ UNCHANGED store
             ELSE (/\ \E a \in users : a.id = u
                   /\ \E r \in receipts : r.id = id) =>
                    /\ ~last'.threw
                    /\ Cardinality(Links(u, id)') = 1
                    /\ \E l \in Links(u, id)' : user_receipts' = user_receipts \cup {l}
                    /\ UNCHANGED <<users, receipts, receipt_items>>]_vars

\* accounts 1 and 2 are each linked once to receipt a1b2c3d4-0001, and the
\* second linkReceiptToUser of account 2 to it has just thrown
C12_Witness ==
  /\ last.op = "linkReceiptToUser" /\ last.threw
  /\ last.uid = Val(2) /\ last.shown = <<U1>>
  /\ Cardinality(Links(1, U1)) = 1
  /\ Cardinality(Links(2, U1)) = 1
  /\ Cardinality(user_receipts) = 2

(***************************************************************************)
(* C13  No dangling references.                                            *)
(***************************************************************************)
\* every line item and every ownership link refers to a receipt that exists,
\* and every ownership link to an account that exists
NoDangling ==
  /\ \A i \in receipt_items : \E r \in receipts : r.id = i.receipt_id
  /\ \A l \in user_receipts :
       /\ \E r \in receipts : r.id = l.receipt_id
       /\ \E u \in users : u.id = l.user_id

\* C13: in every reachable state each line item and each ownership link
\* refers to an existing receipt and each ownership link to an existing
\* account; deleteReceipt removes the receipt together with all its line
\* items and all its ownership links, and nothing else.
C13_NoDangling ==
  /\ []NoDangling
  /\ [][\A id \in StoreIds :
          (last'.op = "deleteReceipt" /\ last'.shown = <<id>>) =>
             /\ receipts' = {r \in receipts : r.id # id}
             /\ receipt_items' = {i \in receipt_items : i.receipt_id # id}
             /\ user_receipts' = {l \in user_receipts : l.receipt_id # id}
             /\ (last'.reply = "true") = (\E r \in receipts : r.id = id)
             /\ UNCHANGED users]_vars

\* deleteReceipt has just removed a1b2c3d4-0001: no row, item or link carries
\* that id any more, while a1b2c3d4-0002 keeps its item and the links of both
\* accounts
C13_Witness ==
  /\ last.op = "deleteReceipt" /\ last.reply = "true" /\ last.shown = <<U1>>
  /\ {r.id : r \in receipts} = {U2}
  /\ {i.receipt_id : i \in receipt_items} = {U2}
  /\ {<<l.user_id, l.receipt_id>> : l \in user_receipts} = {<<1, U2>>, <<2, U2>>}

(***************************************************************************)
(* SpecIsolation: three accounts side by side.  Alice and Bob register     *)
(* over REST and save, list, read, annotate and delete receipts and ask    *)
(* for statistics with their tokens; chat 101 stores a credential, gets    *)
(* receipts saved from text and sends /receipt_a and /delete a.  Every     *)
(* receipt id starts with "a", so a prefix of one account always fits the  *)
(* receipts of the others.                                                 *)
(***************************************************************************)
Alice == <<"alice", "", "@example.com">>
Bob == <<"bob", "", "@example.com">>

\* the tokens handleRegister and handleLogin have handed out by now: one per
\* account that was registered over REST and moment of signing (an account
\* made by createTelegramUser has a random password, nobody logs in to it)
IssuedTokens == {SignToken(u.id, t) : u \in RestUsers, t \in 0..now}

\* headers that carry an issued token that has not expired
ValidHeaders == {Bearer(k) : k \in {x \in IssuedTokens : TheVal(x.exp) >= now}}

IsolationMsgs ==
  {Text("101", S_setkey \o Sp \o K1), Text("101", Tea),
   Text("101", S_receipt \o Underscore \o P_a), Text("101", S_delete \o Sp \o P_a)}

\* the ids a client asks for: those of the first two receipts created
IsolationIds == {Uuid(1), Uuid(2)}

NextIsolation ==
  \/ \E email \in {Alice, Bob} : Direct(HandleRegister(RegisterBody(email)))
  \/ \E auth \in ValidHeaders :
       /\ Cardinality(receipts) < MaxReceipts
       /\ Direct(HandleSaveReceipt(auth, Val(R110), NULL, NextUuid))
  \/ \E auth \in ValidHeaders : Direct(HandleGetUserReceipts(auth))
  \/ \E auth \in ValidHeaders, id \in IsolationIds : Direct(HandleGetReceiptById(auth, id))
  \/ \E auth \in ValidHeaders, id \in IsolationIds : Direct(HandleDeleteReceipt(auth, id))
  \/ \E auth \in ValidHeaders, id \in IsolationIds :
       Direct(HandleUpdateReceiptNotes(auth, id, Caption))
  \/ \E auth \in ValidHeaders : Direct(HandleGetReceiptStats(auth))
  \/ \E msg \in IsolationMsgs :
       \/ Direct(HandleSetKey(msg))
       \/ Direct(HandleTextReceipt(msg))
       \/ Direct(HandleReceiptDetail(msg))
       \/ Direct(HandleDelete(msg))
  \/ \E s \in Slots : Direct(TypingDone(s, TRUE))
  \/ \E s \in Slots :
       Cardinality(receipts) < MaxReceipts /\ Direct(AnalyzeReturn(s, Json(R220), NextUuid, now))

SpecIsolation == Init /\ [][NextIsolation]_vars

\* the ownership links of an account, and the ids of the receipts linked to it
LinksOf(userId) == {l \in user_receipts : l.user_id = userId}
LinkedIds(userId) == {r.id : r \in LinkedReceipts(userId)}

\* the account the step just taken acted for: the authenticated account of a
\* request, the account of the session of a chat
Actor ==
  IF last'.at = "request" THEN last'.uid
  ELSE {t.user_id : t \in {x \in telegram_users' : x.chat_id = last'.chat}}

\* the elements of a sequence
Range(q) == {q[i] : i \in 1..Len(q)}

(***************************************************************************)
(* C14  User isolation.                                                    *)
(***************************************************************************)
\* what a request of account u answers, against the receipts linked to u
\* before the step
C14_Rest(u) ==
  LET l == last' IN
  /\ l.op = "handleGetUserReceipts" =>
       /\ l.reply = "200"
       /\ Range(l.shown) = LinkedIds(u) /\ Len(l.shown) = Cardinality(LinkedIds(u))
  /\ l.op = "handleGetReceiptById" =>
       IF l.text \in LinkedIds(u) THEN l.reply = "200" /\ l.shown = <<l.text>>
       ELSE l.reply = "404" /\ l.shown = <<>>
  /\ l.op = "handleGetReceiptStats" =>
       /\ l.stats.totalReceipts = Cardinality(LinkedReceipts(u))
       /\ l.stats.totalAmount = SumTotals(LinkedReceipts(u))
  /\ l.op \in {"handleDeleteReceipt", "handleUpdateReceiptNotes"} =>
       IF l.text \in LinkedIds(u) THEN l.reply = "200"
       ELSE l.reply = "404" /\ UNCHANGED store

\* what /receipt_ and /delete of chat c match, against the receipts linked to
\* the account of c before the step
C14_Chat(c) ==
  LET l == last' IN
  (l.op \in {"handleReceiptDetail", "handleDelete"} /\ l.chat = c) =>
     /\ Range(l.shown) \subseteq OwnedIds(c)
     /\ OwnedIds(c) = {} => l.reply \in {"register_first", "not_found", "delete_not_found"}

\* a step leaves the links and the receipts of every account it does not act
\* for as they were
C14_Others ==
  \A v \in users :
    v.id \notin Actor =>
      /\ LinksOf(v.id)' = LinksOf(v.id)
      /\ LinkedReceipts(v.id)' = LinkedReceipts(v.id)

\* C14: after any sequence of operations by any accounts, the receipt list,
\* the lookup by id and the statistics of an account cover exactly the
\* receipts linked to that account; GET or DELETE of a receipt id that is
\* linked only to another account answers 404 and changes nothing; /receipt_
\* and /delete in chat match only receipts of the caller; and no operation
\* of one account changes what is linked to another.
C14_Isolation ==
  [][/\ \A u \in users :
          (last'.at = "request" /\ last'.uid = Val(u.id) /\ last'.op # "handleRegister")
            => C14_Rest(u.id)
     /\ \A c \in Chats : C14_Chat(c)
     /\ C14_Others]_vars

\* Alice asked for the receipt of chat 101 by its full id and got 404, while
\* she holds a receipt of her own
C14_Witness ==
  /\ last.op = "handleGetReceiptById" /\ last.reply = "404"
  /\ \E u \in users :
       /\ u.email = Alice /\ last.uid = Val(u.id)
       /\ Cardinality(LinkedIds(u.id)) = 1
       /\ last.text \notin LinkedIds(u.id)
  /\ last.text \in OwnedIds("101")

(***************************************************************************)
(* SpecRest: the receipt routes and their tokens.  Alice registers and     *)
(* time passes, so that tokens she was given expire.  Each route is called *)
(* without a header, with another scheme than Bearer in front of a good    *)
(* token, with nothing after "Bearer ", with a string that is not a token, *)
(* with a token that names an account but is not signed with the secret,   *)
(* with an expired token, and with a good one.                             *)
(***************************************************************************)
\* a token made without JWT_SECRET: any payload, a signature that does not fit
Forged(userId) == [kind |-> "jwt", signed |-> FALSE, userId |-> Val(userId), exp |-> NULL]

RestHeaders ==
  {NoHeader, Bearer(EmptyToken), Bearer(GarbageToken)}
    \cup {Bearer(Forged(u)) : u \in 1..MaxRestUsers}
    \cup {Bearer(k) : k \in IssuedTokens}
    \cup {OtherScheme(k) : k \in IssuedTokens}

ReceiptRoutes ==
  {"handleSaveReceipt", "handleGetUserReceipts", "handleGetReceiptById",
   "handleDeleteReceipt", "handleUpdateReceiptNotes", "handleGetReceiptStats"}

NextRest ==
  \/ Direct(HandleRegister(RegisterBody(Alice)))
  \/ now < MaxTicks /\ Direct(Tick)
  \/ \E auth \in RestHeaders, receipt \in {NULL, Val(R110)} :
       /\ Cardinality(receipts) < MaxReceipts
       /\ Direct(HandleSaveReceipt(auth, receipt, Val(Caption), NextUuid))
  \/ \E auth \in RestHeaders : Direct(HandleGetUserReceipts(auth))
  \/ \E auth \in RestHeaders, id \in IsolationIds : Direct(HandleGetReceiptById(auth, id))
  \/ \E auth \in RestHeaders, id \in IsolationIds : Direct(HandleDeleteReceipt(auth, id))
  \/ \E auth \in RestHeaders, id \in IsolationIds :
       Direct(HandleUpdateReceiptNotes(auth, id, K1))
  \/ \E auth \in RestHeaders : Direct(HandleGetReceiptStats(auth))

SpecRest == Init /\ [][NextRest]_vars

(***************************************************************************)
(* C15  The receipt routes without a valid token.                          *)
(***************************************************************************)
\* C15: every REST receipt operation (save, list, get by id, delete, update
\* notes, stats) called without a valid token, that is without a header
\* "Bearer <token>" whose token the server issued and that has not expired,
\* answers 401 and leaves the store unchanged; called with one it does not
\* answer 401.
C15_Unauthorized ==
  [][(last'.at = "request" /\ last'.op \in ReceiptRoutes) =>
        IF last'.auth \in ValidHeaders
        THEN last'.reply # "401" /\ last'.uid # NULL
        ELSE last'.reply = "401" /\ last'.uid = NULL /\ UNCHANGED store]_vars

\* DELETE of Alice's receipt with a token that names her account but is not
\* signed with the secret was answered 401, and the receipt is still hers
C15_Witness ==
  /\ last.op = "handleDeleteReceipt" /\ last.reply = "401"
  /\ \E u \in users :
       /\ u.email = Alice /\ last.auth = Bearer(Forged(u.id))
       /\ LinkedIds(u.id) = {Uuid(1)}
  /\ now = MaxTicks

(***************************************************************************)
(* SpecAccounts: the three ways an account is made.  createUser is called  *)
(* directly, POST /api/auth/register arrives with well-formed bodies and   *)
(* with bodies that fail a validation (a short password, no name, an       *)
(* address without "@"), and chats send /start; all of them for the same   *)
(* few addresses, in any order and repeatedly.                             *)
(***************************************************************************)
AccountEmails == {Alice, TgEmail("101")}

RegisterBodies ==
  {RegisterBody(e) : e \in AccountEmails}
    \cup {[RegisterBody(e) EXCEPT !.password = Val(ShortPassword)] : e \in AccountEmails}
    \cup {[RegisterBody(Alice) EXCEPT !.name = NULL],
          RegisterBody(<<"alice", "", "example.com">>)}

NextAccounts ==
  \/ \E email \in AccountEmails \cup {Bob} : Direct(CreateUserCall(email))
  \/ \E body \in RegisterBodies : Direct(HandleRegister(body))
  \/ \E c \in Chats : Direct(HandleStart(Text(c, S_start)))

SpecAccounts == Init /\ [][NextAccounts]_vars

\* a body that passes the validations of handleRegister
WellFormed(body) ==
  /\ body.email # NULL /\ TruthyStr(body.password) /\ TruthyStr(body.name)
  /\ IsValidEmail(TheVal(body.email))
  /\ Len(TheVal(body.password)) >= 6

(***************************************************************************)
(* C16  Account handles are unique.                                        *)
(***************************************************************************)
\* C16: in every reachable state no two accounts have the same email (or the
\* same id); createUser with an email that exists throws and creates no
\* account; a registration request for an email that exists changes no table
\* and is answered 409 (a request that fails a validation is answered 400
\* before the email is looked up); and a registration that is answered 201
\* adds exactly one account, with that email.
C16_UniqueHandles ==
  /\ [](\A u1, u2 \in users : (u1.email = u2.email \/ u1.id = u2.id) => u1 = u2)
  /\ [][/\ (last'.op = "createUser" /\ FindUserByEmail(last'.text) # {}) =>
             last'.threw /\ UNCHANGED store
        /\ (last'.op = "handleRegister" /\ FindUserByEmail(last'.text) # {}) =>
             /\ UNCHANGED store
             /\ last'.reply = (IF WellFormed(TheVal(last'.body)) THEN "409" ELSE "400")
        /\ (last'.op = "handleRegister" /\ last'.reply = "201") =>
             /\ FindUserByEmail(last'.text) = {}
             /\ \E u \in users' : u.email = last'.text /\ users' = users \cup {u}]_vars

\* POST /api/auth/register for tg_101@telegram.local was answered 409: chat
\* 101 holds that handle since its /start, next to two other accounts
C16_Witness ==
  /\ last.op = "handleRegister" /\ last.reply = "409" /\ last.text = TgEmail("101")
  /\ SessionOf("101") # {}
  /\ Cardinality(users) = 3
  /\ Cardinality({u.email : u \in users}) = 3

(***************************************************************************)
(* telegram-handlers.ts: handleMessage, the handler the poll loop is given *)
(***************************************************************************)
\* handleMessage: every handler action is guarded by Route(msg)
HandleMessage(msg) ==
  \/ HandleStart(msg)
  \/ HandleSetKey(msg)
  \/ HandleStats(msg)
  \/ HandleHistory(msg)
  \/ HandleDelete(msg)
  \/ HandleHelp(msg)
  \/ HandleReceiptDetail(msg)
  \/ HandlePhoto(msg)
  \/ HandleTextReceipt(msg)
  \/ UnknownCommand(msg)
  \/ Ignored(msg)

(***************************************************************************)
(* telegram-bot.ts: startPolling, stopPolling and the provider's getUpdates *)
(***************************************************************************)
\* largest update_id the provider hands out
MaxUpdateId == 3
\* most updates the provider holds unconfirmed at a time
MaxPending == 2

\* TgUpdate: update_id and the optional message
Update(id, message) == [update_id |-> id, message |-> message]

UpdateIds(updates) == {updates[i].update_id : i \in 1..Len(updates)}

\* the updates of a batch the handler is called for: if (update.message)
MessageIds(updates) ==
  {updates[i].update_id : i \in {j \in 1..Len(updates) : updates[j].message # NULL}}

SetMax(S) == CHOOSE x \in S : \A y \in S : y <= x

\* process.env.TELEGRAM_BOT_TOKEN || ''
BotTokens == {"", "token"}

\* a step of the loop itself, in last
PollStep(op, at, reply) == Step(op, at, "", <<>>, reply)

\* the poll loop is between two awaits: nothing else runs while the for loop does
Between == poll.pc # "batch"

\* startPolling up to `await setMyCommands()`
StartPolling(BOT_TOKEN) ==
  /\ poll.pc = "off"
  /\ IF BOT_TOKEN = ""
     THEN /\ poll' = [poll EXCEPT !.pc = "disabled"]
          /\ last' = PollStep("startPolling", "poll", "disabled")
     ELSE /\ poll' = [poll EXCEPT !.running = TRUE, !.offset = 0, !.pc = "starting"]
          /\ last' = PollStep("startPolling", "poll", "none")
  /\ UNCHANGED <<store, now, handlers, telegram, log>>

\* setMyCommands settles: a rejection leaves startPolling before its loop
SetMyCommands(ok) ==
  /\ poll.pc = "starting"
  /\ poll' = [poll EXCEPT !.pc = IF ok THEN "loop" ELSE "failed"]
  /\ last' = IF ok THEN PollStep("setMyCommands", "poll", "none")
             ELSE Threw("setMyCommands", "poll", "", <<>>)
  /\ UNCHANGED <<store, now, handlers, telegram, log>>

\* while (running): apiRequest('getUpdates', {offset, ...}) is sent; the provider
\* forgets the updates below the offset
GetUpdates ==
  /\ poll.pc = "loop"
  /\ IF poll.running
     THEN /\ poll' = [poll EXCEPT !.pc = "polling"]
          /\ telegram' = [telegram EXCEPT !.pending =
                            SelectSeq(telegram.pending, LAMBDA u : u.update_id >= poll.offset)]
          /\ log' = [log EXCEPT !.sent = Val(poll.offset)]
          /\ last' = PollStep("getUpdates", "send", "none")
     ELSE /\ poll' = [poll EXCEPT !.pc = "done"]
          /\ last' = PollStep("startPolling", "return", "none")
          /\ UNCHANGED <<telegram, log>>
  /\ UNCHANGED <<store, now, handlers>>

\* the request resolves with the k oldest unconfirmed updates
GetUpdatesResult(k) ==
  /\ poll.pc = "polling"
  /\ k \in 0..Len(telegram.pending)
  /\ k = 0 <=> telegram.pending = <<>>
  /\ LET updates == SubSeq(telegram.pending, 1, k)
     IN  /\ poll' = [poll EXCEPT !.pc = "batch", !.updates = updates]
         /\ log' = [log EXCEPT !.received = @ \cup UpdateIds(updates),
                                !.messages = @ \cup MessageIds(updates),
                                !.failed = FALSE]
  /\ last' = PollStep("getUpdates", "result", "none")
  /\ UNCHANGED <<store, now, handlers, telegram>>

\* the request rejects and the rejection leaves startPolling
GetUpdatesError_Return ==
  /\ poll.pc = "polling"
  /\ poll' = [poll EXCEPT !.pc = "done"]
  /\ log' = [log EXCEPT !.failed = TRUE]
  /\ last' = Threw("getUpdates", "result", "", <<>>)
  /\ UNCHANGED <<store, now, handlers, telegram>>

\* the request rejects: catch, console.error, await setTimeout(5000)
GetUpdatesError ==
  /\ poll.pc = "polling"
  /\ poll' = [poll EXCEPT !.pc = "delay"]
  /\ log' = [log EXCEPT !.failed = TRUE]
  /\ last' = Threw("getUpdates", "result", "", <<>>)
  /\ UNCHANGED <<store, now, handlers, telegram>>

\* the timer of the catch block fires
DelayDone ==
  /\ poll.pc = "delay"
  /\ poll' = [poll EXCEPT !.pc = "loop"]
  /\ last' = PollStep("setTimeout", "poll", "none")
  /\ UNCHANGED <<store, now, handlers, telegram, log>>

\* offset = update.update_id
NextOffset_Same(update) == update.update_id

\* offset = update.update_id + 1
NextOffset(update) == update.update_id + 1

\* await handler(update.message): a rejection reaches the catch of the loop
Caught_Awaited(p, threw) ==
  IF threw THEN [p EXCEPT !.pc = "delay", !.updates = <<>>] ELSE p

\* handler(update.message).catch(console.error): the promise is not awaited
\* and its rejection is logged
Caught(p, threw) == p

\* one turn of `for (const update of updates)`
Dispatch ==
  /\ poll.pc = "batch"
  /\ poll.updates # <<>>
  /\ LET update == Head(poll.updates)
         p == [poll EXCEPT !.offset = NextOffset(update), !.updates = Tail(poll.updates)]
     IN  /\ IF update.message # NULL
            THEN /\ HandleMessage(TheVal(update.message))
                 /\ poll' = Caught(p, last'.threw)
                 /\ log' = [log EXCEPT !.dispatched = Append(@, update.update_id),
                                        !.rejected = IF last'.threw
                                                     THEN @ \cup {update.update_id} ELSE @]
            ELSE /\ last' = PollStep("startPolling", "skip", "none")
                 /\ poll' = p
                 /\ UNCHANGED <<store, now, handlers, log>>
  /\ UNCHANGED telegram

\* the for loop is through: back to `while (running)`
BatchDone ==
  /\ poll.pc = "batch"
  /\ poll.updates = <<>>
  /\ poll' = [poll EXCEPT !.pc = "loop"]
  /\ last' = PollStep("startPolling", "loop", "none")
  /\ UNCHANGED <<store, now, handlers, telegram, log>>

\* stopPolling
StopPolling ==
  /\ Between
  /\ poll.running
  /\ poll' = [poll EXCEPT !.running = FALSE]
  /\ last' = PollStep("stopPolling", "poll", "none")
  /\ UNCHANGED <<store, now, handlers, telegram, log>>

\* the provider gets an update of a chat: update ids grow, not always by one
Arrive(message, gap) ==
  /\ Between
  /\ Len(telegram.pending) < MaxPending
  /\ telegram.next_id + gap <= MaxUpdateId
  /\ telegram' = [pending |-> Append(telegram.pending, Update(telegram.next_id + gap, message)),
                  next_id |-> telegram.next_id + gap + 1]
  /\ UNCHANGED <<store, now, handlers, last, poll, log>>

\* the events of the loop's specification: /start of two chats, /help, and an
\* update that carries no message
PollMessages ==
  {Val(Text("101", S_start)), Val(Text("202", S_start)), Val(Text("101", S_help)), NULL}

NextPoll ==
  \/ \E token \in BotTokens : StartPolling(token)
  \/ \E ok \in BOOLEAN : SetMyCommands(ok)
  \/ GetUpdates
  \/ \E k \in 0..MaxPending : GetUpdatesResult(k)
  \/ GetUpdatesError
  \/ DelayDone
  \/ Dispatch
  \/ BatchDone
  \/ StopPolling
  \/ \E message \in PollMessages, gap \in {0, 1} : Arrive(message, gap)
  \/ Between /\ Direct(HandleRegister(RegisterBody(TgEmail("101"))))

SpecPoll == Init /\ [][NextPoll]_vars

\* the timer fires and a loop that can go on does
SpecPollFair ==
  SpecPoll /\ WF_vars(DelayDone) /\ WF_vars(GetUpdates) /\ WF_vars(BatchDone) /\ WF_vars(Dispatch)

(***************************************************************************)
(* C17                                                                     *)
(***************************************************************************)
\* the updates with a message that the for loop has still to go through
ToDispatch == IF poll.pc = "batch" THEN MessageIds(poll.updates) ELSE {}

\* C17: a handler that throws or rejects does not stop the poll loop and
\* does not keep any other event from its handler.  The step in which the
\* handler of an update fails leaves the loop where it is (same running flag,
\* still in the for loop, with the rest of the batch to go and the offset
\* past this update); every update with a message that was received is
\* handed to the handler exactly once, by the end of its batch, whatever
\* the handlers of the updates before it did; and no loop that has started
\* polling leaves the cycle of polling, dispatching and waiting while
\* running is true.
C17_FailuresIsolated ==
  /\ [](/\ log.messages = Range(log.dispatched) \cup ToDispatch
        /\ Range(log.dispatched) \cap ToDispatch = {}
        /\ Cardinality(Range(log.dispatched)) = Len(log.dispatched)
        /\ log.rejected \subseteq Range(log.dispatched))
  /\ [][(last'.at = "dispatch" /\ last'.threw) =>
          /\ poll.pc = "batch"
          /\ poll' = [poll EXCEPT !.offset = Head(poll.updates).update_id + 1,
                                  !.updates = Tail(poll.updates)]
          /\ log'.rejected = log.rejected \cup {Head(poll.updates).update_id}]_vars
  /\ [][(poll.pc \in {"loop", "polling", "batch", "delay"} /\ poll'.pc \notin {"loop", "polling", "batch", "delay"})
          => ~poll.running]_vars

\* the handler of update 1 failed; those of updates 2 and 3, received with it
\* or after it, ran, the last one without failing
C17_Witness ==
  /\ log.rejected = {1}
  /\ log.dispatched = <<1, 2, 3>>
  /\ last.op = "handleStart" /\ last.chat = "202" /\ ~last.threw
  /\ poll.running

(***************************************************************************)
(* C18                                                                     *)
(***************************************************************************)
\* the offset a poll has to send to get only updates it has not received
NewerThanReceived == IF log.received = {} THEN 0 ELSE SetMax(log.received) + 1

\* C18: the poll loop asks only for strictly newer updates.  Every
\* getUpdates the loop sends carries the offset 0 while no update was
\* received and one more than the highest update_id received so far after
\* that; the offset never decreases; and every update a poll returns has an
\* update_id above all those received before it.
C18_StrictlyNewer ==
  /\ [][(last'.op = "getUpdates" /\ last'.at = "send") =>
          /\ log'.sent = Val(poll.offset)
          /\ poll.offset = NewerThanReceived]_vars
  /\ [][poll'.offset >= poll.offset]_vars
  /\ [][(last'.op = "getUpdates" /\ last'.at = "result" /\ ~last'.threw) =>
          /\ log'.received = log.received \cup UpdateIds(poll'.updates)
          /\ \A id \in UpdateIds(poll'.updates) : \A seen \in log.received : id > seen]_vars

\* a poll is sent after updates 1 and 3 (there was no 2) were received in
\* earlier polls: it asks for 4
C18_Witness ==
  /\ last.op = "getUpdates" /\ last.at = "send"
  /\ log.received = {1, 3}
  /\ log.sent = Val(4)
  /\ Len(log.dispatched) = 2

(***************************************************************************)
(* C19                                                                     *)
(***************************************************************************)
\* C19: a failed poll does not end the loop.  The step in which getUpdates
\* rejects leaves running and the offset as they are and puts the loop into
\* its delay; the poll sent after a failed one carries the offset of the
\* failed one; and whenever the loop is in its delay with running true, it
\* later polls again (or has been stopped), however many polls have failed
\* before.
C19_RetryAfterError ==
  /\ [][(last'.op = "getUpdates" /\ last'.threw) =>
          /\ poll' = [poll EXCEPT !.pc = "delay"]
          /\ log'.failed]_vars
  /\ [][(last'.op = "getUpdates" /\ last'.at = "send" /\ log.failed) =>
          log'.sent = log.sent]_vars
  /\ [][(poll.pc = "delay" /\ poll'.pc # "delay") => (poll'.pc = "loop" /\ poll'.offset = poll.offset)]_vars
  /\ ((poll.pc = "delay" /\ poll.running) ~> (poll.pc = "polling" \/ ~poll.running))

\* the loop polls again with offset 2 after a poll with offset 2 failed
C19_Witness ==
  /\ last.op = "getUpdates" /\ last.at = "send"
  /\ log.failed
  /\ log.sent = Val(2)
  /\ poll.running /\ poll.pc = "polling"

(***************************************************************************)
(* handleMessage called with every kind of event                           *)
(***************************************************************************)
\* texts of events: each command alone and with trailing characters, the
\* /receipt pattern with and without underscore and id-prefix and in upper
\* case, an unknown command, plain text and no text
RouteTexts ==
  {S_start, S_start \o <<"s">>, S_setkey \o Sp \o K1, S_stats, S_history \o <<"x">>,
   S_delete \o Sp \o <<"a">>, S_help, S_help \o <<"!">>,
   S_receipt \o <<"_", "a">>, S_receipt \o <<"a">>, <<"/", "R", "E", "C", "E", "I", "P", "T", "_", "A">>,
   S_receipt, S_receipt \o <<"_">>, S_receipt \o <<"_", "z">>,
   <<"/", "f", "o", "o">>, Tea, <<>>}

\* chat 101 sends the texts alone, chat 202 sends them with a photo
RouteMsgs ==
  {Text("101", t) : t \in RouteTexts}
    \cup {[Photo("202", NULL) EXCEPT !.text = t] : t \in RouteTexts}

NextRoute ==
  \E msg \in RouteMsgs :
    \/ Direct(HandleStart(msg))
    \/ Direct(HandleSetKey(msg))
    \/ Direct(HandleStats(msg))
    \/ Direct(HandleHistory(msg))
    \/ Direct(HandleDelete(msg))
    \/ Direct(HandleHelp(msg))
    \/ Direct(HandleReceiptDetail(msg))
    \/ Direct(HandlePhoto(msg))
    \/ Direct(HandleTextReceipt(msg))
    \/ Direct(UnknownCommand(msg))
    \/ Direct(Ignored(msg))

SpecRoute == Init /\ [][NextRoute]_vars

(***************************************************************************)
(* C20                                                                     *)
(***************************************************************************)
\* p is a prefix of t
Prefix(p, t) == Len(t) >= Len(p) /\ \A i \in 1..Len(p) : t[i] = p[i]

\* /receipt in either case, then an optional _, then at least one
\* hexadecimal character
ReceiptPattern(t) ==
  LET n == Len(S_receipt)
  IN  /\ Len(t) > n
      /\ \A i \in 1..n : Lower(t[i]) = S_receipt[i]
      /\ \/ IsHex(t[n + 1])
         \/ Len(t) > n + 1 /\ t[n + 1] = "_" /\ IsHex(t[n + 2])

\* the ordered list of tests and outcomes
Matchers(msg) ==
  <<[when |-> Prefix(S_start, msg.text), outcome |-> "handleStart"],
    [when |-> Prefix(S_setkey, msg.text), outcome |-> "handleSetKey"],
    [when |-> Prefix(S_stats, msg.text), outcome |-> "handleStats"],
    [when |-> Prefix(S_history, msg.text), outcome |-> "handleHistory"],
    [when |-> Prefix(S_delete, msg.text), outcome |-> "handleDelete"],
    [when |-> Prefix(S_help, msg.text), outcome |-> "handleHelp"],
    [when |-> ReceiptPattern(msg.text), outcome |-> "handleReceiptDetail"],
    [when |-> msg.photo # <<>>, outcome |-> "handlePhoto"],
    [when |-> msg.text # <<>> /\ msg.text[1] # "/", outcome |-> "handleTextReceipt"],
    [when |-> msg.text # <<>> /\ msg.text[1] = "/", outcome |-> "unknownCommand"],
    [when |-> TRUE, outcome |-> "ignored"]>>

FirstMatch(msg) ==
  LET ms == Matchers(msg)
      first == CHOOSE i \in 1..Len(ms) : ms[i].when /\ \A j \in 1..(i - 1) : ~ms[j].when
  IN  ms[first].outcome

\* C20: handleMessage gives every event to exactly one outcome, the first
\* that matches in the order /start, /setkey, /stats, /history, /delete,
\* /help (as prefixes of the text), the /receipt pattern, a photo, non-empty
\* text that does not start with /, any other text starting with / (the
\* unknown-command reply), nothing.  An event that matches nothing gets no
\* reply and changes no table; the unknown-command reply changes none either.
C20_FirstMatch ==
  [][\A msg \in RouteMsgs :
       (last'.at = "dispatch" /\ last'.chat = msg.chat /\ last'.text = msg.text) =>
         /\ last'.op = FirstMatch(msg)
         /\ last'.op = "ignored" => (last'.reply = "none" /\ UNCHANGED <<store, handlers>>)
         /\ last'.op = "unknownCommand" =>
              (last'.reply = "unknown_command" /\ UNCHANGED <<store, handlers>>)]_vars

\* a photo whose text is /receipt_a went to the receipt detail handler, one
\* photo of the chat being analysed already
C20_Witness ==
  /\ last.op = "handleReceiptDetail" /\ last.at = "dispatch"
  /\ last.chat = "202" /\ last.text = S_receipt \o <<"_", "a">>
  /\ \E s \in Slots : handlers[s] # Idle

(***************************************************************************)
(* C21                                                                     *)
(***************************************************************************)
\* C21: /start always succeeds.  Every /start that is handled, in whatever
\* state of the store (REST registrations included), ends with a session of
\* the chat bound to an existing account and with the welcome reply, and no
\* command handler ends in an exception of account creation.
C21_StartSucceeds ==
  [][/\ last'.op = "handleStart" =>
          /\ ~last'.threw
          /\ last'.reply = "welcome"
          /\ \E t \in telegram_users' :
               /\ t.chat_id = last'.chat
               /\ \E u \in users' : u.id = t.user_id
     /\ (last'.at = "dispatch" /\ IsProvisioning(last')) => ~last'.threw]_vars

\* /start of chat 101 ended in the exception of createUser: the chat's handle
\* was registered over REST, and the chat has no session
C21_Witness ==
  /\ last.op = "handleStart" /\ last.chat = "101"
  /\ last.threw /\ last.reply = "none"
  /\ SessionOf("101") = {}
  /\ \E u \in RestUsers : u.email = TgEmail("101")

(***************************************************************************)
(* The query commands of chats with and without a session                  *)
(***************************************************************************)
CommandMsgs ==
  {Text(c, t) : c \in Chats,
                t \in {S_stats, S_history, S_receipt \o Underscore \o P_a,
                       S_delete \o Sp \o P_a, S_delete}}
    \cup {Text("101", S_start), Text("101", S_setkey \o Sp \o K1), Text("101", Tea),
          Text("202", S_start)}

NextCommands ==
  \/ \E msg \in CommandMsgs :
       \/ Direct(HandleStart(msg))
       \/ Direct(HandleSetKey(msg))
       \/ Direct(HandleTextReceipt(msg))
       \/ Direct(HandleStats(msg))
       \/ Direct(HandleHistory(msg))
       \/ Direct(HandleReceiptDetail(msg))
       \/ Direct(HandleDelete(msg))
  \/ \E s \in Slots : Direct(TypingDone(s, TRUE))
  \/ \E s \in Slots :
       Cardinality(receipts) < MaxReceipts /\ Direct(AnalyzeReturn(s, Json(R110), NextUuid, now))
  \/ Direct(HandleRegister(RegisterBody(TgEmail("202"))))

SpecCommands == Init /\ [][NextCommands]_vars

(***************************************************************************)
(* C22                                                                     *)
(***************************************************************************)
SessionRequired == {"handleStats", "handleHistory", "handleReceiptDetail", "handleDelete"}

\* C22: /stats, /history, /receipt and /delete of a chat that has no session
\* reply 'please register first' and change nothing: no session, no
\* account, no receipt, item or link is created or removed and no handler
\* is left waiting.  The reply is given only to chats without session.
C22_RegisterFirst ==
  [][\A c \in Chats :
       (last'.at = "dispatch" /\ last'.op \in SessionRequired /\ last'.chat = c) =>
         IF SessionOf(c) = {}
         THEN /\ last'.reply = "register_first"
              /\ ~last'.threw
              /\ UNCHANGED <<store, handlers>>
         ELSE last'.reply # "register_first"]_vars

\* chat 202 has no session (its handle is even taken by a REST account), chat
\* 101 has a receipt whose id starts with a: /delete a of chat 202 is
\* answered with 'please register first'
C22_Witness ==
  /\ last.op = "handleDelete" /\ last.chat = "202" /\ last.text = S_delete \o Sp \o P_a
  /\ last.reply = "register_first"
  /\ SessionOf("202") = {}
  /\ \E u \in RestUsers : u.email = TgEmail("202")
  /\ \E uid \in AccountOf("101") : \E r \in LinkedReceipts(uid) : StartsWith(r.id, P_a)

(***************************************************************************)
(* C23                                                                     *)
(***************************************************************************)
\* C23: once the credential check has passed, no exception of the photo or
\* text sequence leaves the handler.  Every step a photo or text handler
\* takes after its dispatch (the typing indicator, the file metadata and
\* download with the progress reply, the bridge call and the persistence)
\* ends without an exception leaving the handler, and a step that ends the
\* handler on a failure sends the generic failure message.
C23_CaughtInside ==
  [][(last'.op \in {"handlePhoto", "handleTextReceipt"}
        /\ last'.at \in {"typing", "fetch", "analyze"}) =>
          /\ ~last'.threw
          /\ (\E s \in Slots :
                /\ handlers[s] # Idle /\ handlers'[s] = Idle
                /\ last'.reply \notin {"no_file", "parse_error", "domain_error", "saved"})
               => last'.reply = "failed"]_vars

\* sendChatAction rejected for a photo of chat 101, which has a credential:
\* the handler ended in the exception and sent nothing
C23_Witness ==
  /\ last.op = "handlePhoto" /\ last.at = "typing" /\ last.chat = "101"
  /\ last.threw /\ last.reply = "none"
  /\ HasCredential("101")
  /\ \A s \in Slots : handlers[s] = Idle

(***************************************************************************)
(* C24                                                                     *)
(***************************************************************************)
ItemsOf(rows, id) == {i \in rows : i.receipt_id = id}

\* an item whose INSERT fails: receipt_items.name is NOT NULL
HasBadItem(analysisResult) ==
  \E i \in 1..Len(TheVal(analysisResult.items)) : TheVal(analysisResult.items)[i].name = NULL

\* C24: a receipt is created atomically with its line items.  A createReceipt
\* in which the INSERT of an item fails throws and leaves receipts and items
\* as they were, also when items before the failing one were inserted;
\* every other createReceipt adds exactly the receipt row and one row per
\* item of the result, and touches no other row.  In every reachable state
\* a receipt has either all the items it was created with or does not exist.
C24_AtomicCreate ==
  [][last'.op = "createReceipt" =>
       LET analysisResult == TheVal(last'.body)
           id == last'.shown[1]
       IN  IF HasBadItem(analysisResult)
           THEN /\ last'.threw
                /\ UNCHANGED store
           ELSE /\ ~last'.threw
                /\ \E r \in receipts' : r.id = id /\ receipts' = receipts \cup {r} /\ r \notin receipts
                /\ ItemsOf(receipt_items, id) = {}
                /\ Cardinality(ItemsOf(receipt_items', id)) = Len(TheVal(analysisResult.items))
                /\ receipt_items' \ ItemsOf(receipt_items', id) = receipt_items
                /\ UNCHANGED <<users, telegram_users, user_receipts>>]_vars

\* createReceipt threw on the second item of a result: the store holds only
\* the receipt created before, with its two items
C24_Witness ==
  /\ last.op = "createReceipt" /\ last.threw /\ last.body = Val(RBadItem)
  /\ last.shown = <<U2>>
  /\ {r.id : r \in receipts} = {U1}
  /\ Cardinality(receipt_items) = 2
  /\ \A i \in receipt_items : i.receipt_id = U1

(***************************************************************************)
(* C25                                                                     *)
(***************************************************************************)
\* C25: the credential is read once per event, at dispatch.  A photo or text
\* event that starts a handler gives it the credential the session stores
\* at that moment; a /setkey that is handled while handlers wait changes the
\* stored credential and no waiting handler; the bridge call of a handler
\* passes the credential the handler was given, whatever the session stores
\* by then.
C25_ReadAtDispatch ==
  [][/\ \A s \in Slots :
          /\ (handlers[s].kind = "idle" /\ handlers'[s].kind # "idle") =>
               /\ IsExtraction(last') /\ last'.chat = handlers'[s].chat
               /\ \A c \in Chats : handlers'[s].chat = c =>
                    Val(handlers'[s].apiKey) = {t.google_api_key : t \in SessionOf(c)'}
          /\ (handlers[s].kind # "idle" /\ handlers'[s].kind # "idle") =>
               /\ handlers'[s].apiKey = handlers[s].apiKey
               /\ handlers'[s].chat = handlers[s].chat
     /\ last'.op = "handleSetKey" => handlers' = handlers
     /\ BridgeCalled(last') =>
          \E s \in Slots : /\ handlers[s].pc \in {"typing", "fetch"}
                           /\ handlers[s].chat = last'.chat
                           /\ handlers'[s].pc = "analyze"
                           /\ last'.key = handlers[s].apiKey]_vars

\* the bridge is called with k1 for a photo of chat 101 dispatched when the
\* session stored k1; by the time of the call a /setkey has stored k2
C25_Witness ==
  /\ BridgeCalled(last) /\ last.op = "handlePhoto" /\ last.chat = "101"
  /\ last.key = Val(K1)
  /\ StoredCred("101") = Val(K2)

(***************************************************************************)
(* C26                                                                     *)
(***************************************************************************)
\* C26: only a missing bot token disables the chat surface at startup.
\* Without a token startPolling returns and no getUpdates is ever sent; with
\* a token startPolling goes from its startup into the poll loop, whether or
\* not registering the command list fails, and from then on leaves the
\* cycle of polling, dispatching and waiting only when running is false; a
\* loop that has started and is not stopped polls again and again.
C26_OnlyTokenDisables ==
  /\ [](poll.pc = "disabled" => (~poll.running /\ log.sent = NULL))
  /\ [][poll.pc = "disabled" => poll'.pc = "disabled"]_vars
  /\ [][poll.pc = "starting" => poll'.pc \in {"starting", "loop"}]_vars
  /\ [][(poll.pc \in {"loop", "polling", "batch", "delay"}
           /\ poll'.pc \notin {"loop", "polling", "batch", "delay"}) => ~poll.running]_vars
  /\ ((poll.pc = "starting" /\ poll.running) ~> (poll.pc = "polling" \/ ~poll.running))

\* a bot token is set, setMyCommands rejected: startPolling has ended before
\* its loop, running is still true and no getUpdates was sent
C26_Witness ==
  /\ last.op = "setMyCommands" /\ last.threw
  /\ poll.pc = "failed" /\ poll.running
  /\ log.sent = NULL

(***************************************************************************)
(* C27                                                                     *)
(***************************************************************************)
\* C27: in every reachable state each session resolves to exactly one
\* existing account, the one with the handle of its chat, and no two
\* sessions of different chats are bound to the same account.
C27_OneToOne ==
  /\ \A t \in telegram_users :
       /\ Cardinality({u \in users : u.id = t.user_id}) = 1
       /\ \A u \in users : u.id = t.user_id => u.email = TgEmail(t.chat_id)
  /\ \A t1, t2 \in telegram_users : t1.user_id = t2.user_id => t1.chat_id = t2.chat_id
  /\ \A t1, t2 \in telegram_users : t1.chat_id = t2.chat_id => t1 = t2

\* both chats have a session, next to an account registered over REST: three
\* accounts, two of them bound to one session each
C27_Witness ==
  /\ SessionOf("101") # {} /\ SessionOf("202") # {}
  /\ AccountOf("101") # AccountOf("202")
  /\ Cardinality(users) = 3
  /\ Cardinality(RestUsers) = 1

(***************************************************************************)
(* C28                                                                     *)
(***************************************************************************)
\* C28: a session is changed only in its credential, only by a /setkey of
\* its chat that carries a token, and is never deleted.  Every session that
\* exists before a step exists after it, for the same chat and the same
\* account; its credential differs only after a /setkey with a token from
\* that chat, and is then that token; a credential that is set is never
\* unset or empty afterwards; a new session starts without credential.
C28_SessionFrame ==
  /\ [](\A t \in telegram_users : t.google_api_key = NULL \/ TruthyStr(t.google_api_key))
  /\ [][/\ \A t \in telegram_users :
             \E t2 \in telegram_users' :
               /\ t2.chat_id = t.chat_id
               /\ t2.user_id = t.user_id
               /\ TruthyStr(t.google_api_key) => TruthyStr(t2.google_api_key)
               /\ t2.google_api_key # t.google_api_key =>
                    /\ last'.op = "handleSetKey" /\ last'.at = "dispatch"
                    /\ last'.chat = t.chat_id
                    /\ ~NoSecondToken(last'.text)
                    /\ t2.google_api_key = Val(SplitWs(last'.text)[2])
        /\ \A t2 \in telegram_users' :
             (\A t \in telegram_users : t.chat_id # t2.chat_id) =>
               \/ t2.google_api_key = NULL
               \/ /\ last'.op = "handleSetKey" /\ last'.chat = t2.chat_id
                  /\ t2.google_api_key = Val(SplitWs(last'.text)[2])]_vars

\* chat 101 replaced k1 by k2 while chat 202 keeps k1, both sessions with the
\* accounts they were created with
C28_Witness ==
  /\ last.op = "handleSetKey" /\ last.chat = "101" /\ last.reply = "key_updated"
  /\ StoredCred("101") = Val(K2)
  /\ StoredCred("202") = Val(K1)
  /\ AccountOf("101") # AccountOf("202")

(***************************************************************************)
(* C29                                                                     *)
(***************************************************************************)
\* C29: REST delete succeeds only for a receipt linked to the caller.  A
\* DELETE by an authenticated account of an id that has no receipt, or whose
\* receipt is not linked to that account, answers 404 and leaves receipts,
\* items and links as they are; a DELETE of an id linked to the caller
\* answers 200 and removes the receipt, its items and its links and nothing
\* else, so that a lookup of the id for the caller finds nothing; and a GET
\* of an id that has no receipt answers 404.
C29_DeleteOwned ==
  [][\A u \in StoreUserIds, id \in IsolationIds :
       /\ (last'.op = "handleDeleteReceipt" /\ last'.uid = Val(u) /\ last'.text = id) =>
            IF Links(u, id) = {}
            THEN /\ last'.reply = "404"
                 /\ UNCHANGED store
            ELSE /\ last'.reply = "200"
                 /\ receipts' = {r \in receipts : r.id # id}
                 /\ receipt_items' = {i \in receipt_items : i.receipt_id # id}
                 /\ user_receipts' = {l \in user_receipts : l.receipt_id # id}
                 /\ GetUserReceiptById(DB, u, id)' = {}
                 /\ UNCHANGED <<users, telegram_users>>
       /\ (last'.op = "handleGetReceiptById" /\ last'.uid = Val(u) /\ last'.text = id
             /\ \A r \in receipts : r.id # id) =>
            last'.reply = "404"]_vars

\* Alice's DELETE of a receipt that is linked to Bob only was answered 404;
\* the receipt, its item and Bob's link are there
C29_Witness ==
  /\ last.op = "handleDeleteReceipt" /\ last.reply = "404"
  /\ \E a, b \in users :
       /\ a.email = Alice /\ b.email = Bob
       /\ last.uid = Val(a.id)
       /\ Links(a.id, last.text) = {}
       /\ Links(b.id, last.text) # {}
  /\ \E r \in receipts : r.id = last.text
  /\ \E i \in receipt_items : i.receipt_id = last.text

(***************************************************************************)
(* Events that are delivered more than once                                *)
(***************************************************************************)
\* one event of each kind per chat, so that handler and chat name the event
RedeliveryMsgs ==
  {Text("101", S_start), Text("101", S_setkey \o Sp \o K1), Text("101", Tea),
   Photo("101", Val(Caption)), Text("101", S_delete \o Sp \o P_a), Text("101", S_stats),
   Text("202", S_start)}

\* the handler of the event of this step returned (or its promise settled)
\* in this step
Finished ==
  /\ last' # last
  /\ \A s \in Slots :
       handlers'[s].kind # "idle" =>
         ~(handlers'[s].chat = last'.chat /\ HandlerOp(handlers'[s]) = last'.op)

\* did what it is there for: no exception, and for a photo or text the
\* receipt was saved
FinishedWell ==
  /\ Finished
  /\ ~last'.threw
  /\ last'.op \in {"handlePhoto", "handleTextReceipt"} => last'.reply = "saved"

\* any step of a handler, with the record of the event handled last
Recorded(A) ==
  /\ A
  /\ log' = [log EXCEPT !.done = IF FinishedWell THEN Val(<<last'.op, last'.chat>>)
                                 ELSE IF Finished THEN NULL ELSE @]
  /\ UNCHANGED <<poll, telegram>>

NextRedeliver ==
  \/ \E msg \in RedeliveryMsgs : Recorded(HandleMessage(msg))
  \/ \E s \in Slots, ok \in BOOLEAN : Recorded(TypingDone(s, ok))
  \/ \E s \in Slots, outcome \in {"rejects", "ok"} : Recorded(PhotoFetch(s, outcome))
  \/ \E s \in Slots : Recorded(AnalyzeReturn(s, NotJson, U1, now))
  \/ \E s \in Slots :
       Cardinality(receipts) < MaxReceipts /\ Recorded(AnalyzeReturn(s, Json(R110), NextUuid, now))

SpecRedeliver == Init /\ [][NextRedeliver]_vars

(***************************************************************************)
(* C30                                                                     *)
(***************************************************************************)
\* C30: handlers are safe under redelivery.  When the event whose handling
\* finished last (and finished well) is dispatched again with no other
\* event handled in between, no step of its second handling changes the
\* session directory or the receipt store: both are as they were after the
\* first handling.
C30_Redelivery ==
  [][log.done = Val(<<last'.op, last'.chat>>) => UNCHANGED store]_vars

\* the text 'tea 5' of chat 101 was handled and saved, then dispatched again
\* and saved again: the account has two receipts for one event
C30_Witness ==
  /\ last.op = "handleTextReceipt" /\ last.at = "analyze" /\ last.reply = "saved"
  /\ last.chat = "101"
  /\ log.done = Val(<<"handleTextReceipt", "101">>)
  /\ Cardinality(receipts) = 2
  /\ \A r \in receipts : r \in UNION {LinkedReceipts(uid) : uid \in AccountOf("101")}

(***************************************************************************)
(* C31                                                                     *)
(***************************************************************************)
\* C31: a /setkey event with no second token performs no mutation at all:
\* the handler's step leaves every table as it was, and in particular
\* creates no session and no account for a chat that has none.
C31_UsageNoMutation ==
  [][(last'.op = "handleSetKey" /\ last'.at = "dispatch" /\ NoSecondToken(last'.text)) =>
       /\ UNCHANGED store
       /\ \A c \in Chats : (c = last'.chat /\ SessionOf(c) = {}) =>
            /\ SessionOf(c)' = {}
            /\ users' = users]_vars

\* the only event so far is a /setkey without token of chat 101, answered
\* with the usage message: the chat has a session without credential and
\* the one account of the store is the one behind it
C31_Witness ==
  /\ last.op = "handleSetKey" /\ last.reply = "setkey_usage" /\ last.chat = "101"
  /\ NoSecondToken(last.text)
  /\ telegram_users = SessionOf("101") /\ Cardinality(SessionOf("101")) = 1
  /\ StoredCred("101") = NULL
  /\ Cardinality(users) = 1
  /\ \A u \in users : u.email = TgEmail("101") /\ last.uid = Val(u.id)
  /\ receipts = {} /\ \A s \in Slots : handlers[s].kind = "idle"

(***************************************************************************)
(* C32                                                                     *)
(***************************************************************************)
\* C32: /delete requires a supplied argument.  Handling a /delete text that
\* carries no non-empty token after the command (nothing, or only
\* whitespace) deletes no receipt, no line item and no ownership link.
C32_DeleteNeedsArg ==
  [][(last'.op = "handleDelete" /\ last'.at = "dispatch" /\ NoSecondToken(last'.text)) =>
       UNCHANGED <<receipts, receipt_items, user_receipts>>]_vars

\* chat 101 owned two receipts and sent '/delete ' (the command and a
\* blank): the handler answered that it deleted a receipt, and one of the two
\* is gone
C32_Witness ==
  /\ last.op = "handleDelete" /\ last.chat = "101" /\ last.text = S_delete \o Sp
  /\ SplitWs(last.text) = <<S_delete, <<>>>>
  /\ last.reply = "deleted"
  /\ \E id \in Uuids :
       /\ last.shown = <<id>>
       /\ \A r \in receipts : r.id # id
       /\ \A l \in user_receipts : l.receipt_id # id
  /\ Cardinality(OwnedIds("101")) = 1

(***************************************************************************)
(* C33                                                                     *)
(***************************************************************************)
\* the receipts of the account of chat c whose id starts with p when the
\* case of the letters is ignored
MatchingIgnoreCase(c, p) == {id \in OwnedIds(c) : StartsWith(LowerStr(id), LowerStr(p))}

\* C33: /receipt matches its hexadecimal id prefix case-insensitively.  When
\* the account of the chat has a receipt whose id starts with the captured
\* prefix, letter case ignored, the handler renders such a receipt and does
\* not reply not-found, in whatever case the prefix was typed.
C33_IgnoreCase ==
  [][\A c \in Chats :
       (/\ last'.op = "handleReceiptDetail" /\ last'.chat = c /\ SessionOf(c) # {}
        /\ MatchingIgnoreCase(c, TheVal(ReceiptMatch(last'.text))) # {}) =>
          /\ last'.reply = "detail"
          /\ \E id \in MatchingIgnoreCase(c, TheVal(ReceiptMatch(last'.text))) :
               last'.shown = <<id>>]_vars

\* chat 101 owns a9000000-0003 and asked for /receipt_A9: the pattern took
\* 'A9' as the prefix, and the reply was not-found
C33_Witness ==
  /\ last.op = "handleReceiptDetail" /\ last.chat = "101"
  /\ last.text = S_receipt \o Underscore \o P_upper
  /\ ReceiptMatch(last.text) = Val(P_upper)
  /\ U3 \in OwnedIds("101")
  /\ last.reply = "not_found"

(***************************************************************************)
(* C34                                                                     *)
(***************************************************************************)
\* the receipts among ids that no other of ids was linked after
NewestOf(c, ids) == {id \in ids : \A other \in ids : AddedAt(c, other) <= AddedAt(c, id)}

\* C34: when several receipts of the account share the given id prefix,
\* /receipt renders and /delete deletes exactly one of them, the first in
\* newest-link-first order: a matching receipt that no other matching
\* receipt was linked after.  /delete removes that receipt, its items and
\* its links and leaves every other receipt, item and link as it was;
\* /receipt changes nothing.
C34_FirstOfSeveral ==
  [][\A c \in Chats :
       /\ (/\ last'.op = "handleDelete" /\ last'.chat = c /\ SessionOf(c) # {}
           /\ HasArg(last'.text) /\ Cardinality(Matching(c, Arg(last'.text))) >= 2) =>
            \E id \in NewestOf(c, Matching(c, Arg(last'.text))) :
              /\ last'.reply = "deleted" /\ last'.shown = <<id>>
              /\ receipts' = {r \in receipts : r.id # id}
              /\ user_receipts' = {l \in user_receipts : l.receipt_id # id}
              /\ receipt_items' = {i \in receipt_items : i.receipt_id # id}
       /\ (/\ last'.op = "handleReceiptDetail" /\ last'.chat = c /\ SessionOf(c) # {}
           /\ Cardinality(Matching(c, TheVal(ReceiptMatch(last'.text)))) >= 2) =>
            \E id \in NewestOf(c, Matching(c, TheVal(ReceiptMatch(last'.text)))) :
              /\ last'.reply = "detail" /\ last'.shown = <<id>>
              /\ UNCHANGED store]_vars

\* chat 101 owns a1b2c3d4-0001, linked at time 1, and a9000000-0003, linked
\* at time 0; its /receipt_a rendered the one linked later and changed
\* nothing
C34_Witness ==
  /\ last.op = "handleReceiptDetail" /\ last.reply = "detail" /\ last.chat = "101"
  /\ last.text = S_receipt \o Underscore \o P_a /\ last.shown = <<U1>>
  /\ OwnedIds("101") = {U1, U3}
  /\ AddedAt("101", U3) = 0 /\ AddedAt("101", U1) = 1

(***************************************************************************)
(* The two database calls of a delete, one statement at a time.  Both      *)
(* handlers run them without an await in between, so nothing else runs     *)
(* between the two; the state between them is the state a reader of the    *)
(* database file would find.                                               *)
(***************************************************************************)
\* handleDelete with deleteReceipt called before unlinkReceiptFromUser
DeleteStatements_ReceiptFirst == <<"deleteReceipt", "unlinkReceiptFromUser">>

\* handleDelete and handleDeleteReceipt: the order of the two calls
DeleteStatements == <<"unlinkReceiptFromUser", "deleteReceipt">>

RunStatement(db, statement, userId, id) ==
  IF statement = "unlinkReceiptFromUser" THEN UnlinkReceiptFromUser(db, userId, id)
  ELSE DeleteReceipt(db, id)

\* a handler stands between its two calls
BetweenStatements == last.at = "statement"

\* handleDelete up to and including the first of the two calls; a run that
\* does not get to them is the whole handler
HandleDeleteFirst(msg) ==
  /\ Route(msg) = "handleDelete"
  /\ LET tgUser == FindTelegramUser(msg.chat)
         parts == SplitWs(msg.text)
     IN  IF tgUser = {} \/ Len(parts) < 2 THEN HandleDelete(msg)
         ELSE \E rs \in GetUserReceipts(DB, TheVal(tgUser).user_id) :
                LET match == FindByPrefix(rs, parts[2])
                IN  IF match = NULL THEN HandleDelete(msg)
                    ELSE LET id == TheVal(match).id
                         IN  /\ SetDB(RunStatement(DB, DeleteStatements[1],
                                                   TheVal(tgUser).user_id, id))
                             /\ last' = [Step("handleDelete", "statement", msg.chat, msg.text, "none")
                                           EXCEPT !.shown = <<id>>,
                                                  !.uid = Val(TheVal(tgUser).user_id)]
                             /\ UNCHANGED <<users, telegram_users, now, handlers>>

\* the second call of handleDelete, and the reply
HandleDeleteSecond ==
  /\ BetweenStatements /\ last.op = "handleDelete"
  /\ LET id == last.shown[1]
     IN  /\ SetDB(RunStatement(DB, DeleteStatements[2], TheVal(last.uid), id))
         /\ last' = [Step("handleDelete", "dispatch", last.chat, last.text, "deleted")
                       EXCEPT !.shown = <<id>>, !.short = <<ShortId(id)>>, !.uid = last.uid]
  /\ UNCHANGED <<users, telegram_users, now, handlers>>

\* handleDeleteReceipt up to and including the first of the two calls
HandleDeleteReceiptFirst(auth, receiptId) ==
  LET userId == AuthenticateUser(auth)
  IN  IF userId = NULL \/ GetUserReceiptById(DB, TheVal(userId), receiptId) = {}
      THEN HandleDeleteReceipt(auth, receiptId)
      ELSE /\ SetDB(RunStatement(DB, DeleteStatements[1], TheVal(userId), receiptId))
           /\ last' = [Response("handleDeleteReceipt", auth, userId, "none")
                         EXCEPT !.at = "statement", !.text = receiptId,
                                !.shown = <<receiptId>>]
           /\ UNCHANGED <<users, telegram_users, now, handlers>>

\* the second call of handleDeleteReceipt, and the response
HandleDeleteReceiptSecond ==
  /\ BetweenStatements /\ last.op = "handleDeleteReceipt"
  /\ LET id == last.shown[1]
     IN  /\ SetDB(RunStatement(DB, DeleteStatements[2], TheVal(last.uid), id))
         /\ last' = [Response("handleDeleteReceipt", last.auth, last.uid, "200")
                       EXCEPT !.text = id, !.shown = <<id>>]
  /\ UNCHANGED <<users, telegram_users, now, handlers>>

(***************************************************************************)
(* SpecDelete: Alice registers over REST and saves receipts, chat 101      *)
(* stores a credential and gets receipts saved from text; both delete,     *)
(* Alice by id and the chat by prefix.                                     *)
(***************************************************************************)
DeleteMsgs ==
  {Text("101", S_setkey \o Sp \o K1), Text("101", Tea), Text("101", S_delete \o Sp \o P_a),
   Text("101", S_delete), Text("101", S_delete \o Sp \o P_none)}

\* a step that starts a handler or resumes one: never between the two calls
Apart(A) == ~BetweenStatements /\ A /\ UNCHANGED bot

NextDelete ==
  \/ Apart(HandleRegister(RegisterBody(Alice)))
  \/ \E auth \in ValidHeaders :
       /\ Cardinality(receipts) < MaxReceipts
       /\ Apart(HandleSaveReceipt(auth, Val(R110), NULL, NextUuid))
  \/ \E auth \in ValidHeaders, id \in IsolationIds : Apart(HandleDeleteReceiptFirst(auth, id))
  \/ \E msg \in DeleteMsgs :
       \/ Apart(HandleSetKey(msg))
       \/ Apart(HandleTextReceipt(msg))
       \/ Apart(HandleDeleteFirst(msg))
  \/ \E s \in Slots : Apart(TypingDone(s, TRUE))
  \/ \E s \in Slots :
       Cardinality(receipts) < MaxReceipts /\ Apart(AnalyzeReturn(s, Json(R220), NextUuid, now))
  \/ Direct(HandleDeleteSecond)
  \/ Direct(HandleDeleteReceiptSecond)

SpecDelete == Init /\ [][NextDelete]_vars

(***************************************************************************)
(* C35                                                                     *)
(***************************************************************************)
\* C35: in a delete the ownership link is removed before the receipt is
\* deleted.  Between the two calls the receipt is still there and the
\* deleting account has no link to it; after the second call the receipt is
\* gone; and in no reachable state, the one between the calls included,
\* does an ownership link refer to a receipt that does not exist.
C35_UnlinkFirst ==
  /\ \A l \in user_receipts : \E r \in receipts : r.id = l.receipt_id
  /\ BetweenStatements =>
       /\ \E r \in receipts : r.id = last.shown[1]
       /\ \A uid \in last.uid : Links(uid, last.shown[1]) = {}
  /\ (last.op \in {"handleDelete", "handleDeleteReceipt"} /\ last.reply \in {"deleted", "200"}) =>
       /\ \A r \in receipts : r.id # last.shown[1]
       /\ \A l \in user_receipts : l.receipt_id # last.shown[1]

\* chat 101 sent /delete a and its handler stands between the two calls: the
\* receipt it found is still stored, the account of the chat has no link to
\* it any more, and the receipt of Alice keeps its link
C35_Witness ==
  /\ BetweenStatements /\ last.op = "handleDelete" /\ last.chat = "101"
  /\ \E r \in receipts : r.id = last.shown[1]
  /\ \A uid \in AccountOf("101") : LinksOf(uid) = {}
  /\ Cardinality(receipts) = 2 /\ Cardinality(user_receipts) = 1

(***************************************************************************)
(* C36                                                                     *)
(***************************************************************************)
\* the answer of the bridge that the step just taken handled was valid JSON
\* without an error
ValidNoError == last'.at = "analyze" /\ last'.raw = "json" /\ ~TruthyStr(last'.err)

\* the notes the handler whose step was just taken passes on for its event
\* of chat c: msg.caption || undefined in handlePhoto, undefined in
\* handleTextReceipt
ExpectedNotes(c) ==
  LET acted == {s \in Slots : handlers'[s] # handlers[s] /\ handlers[s].chat = c}
      captions == UNION {handlers[s].caption : s \in {x \in acted : handlers[x].kind = "photo"}}
  IN  IF TruthyStr(captions) THEN captions ELSE NULL

\* the step just taken added one receipt with a new id and one ownership
\* link, that of the account of chat c to the new receipt, with the expected
\* notes; no other link refers to the new receipt, and accounts and sessions
\* are as they were
AddedOne(c) ==
  /\ UNCHANGED <<users, telegram_users>>
  /\ \E r \in receipts' \ receipts :
       /\ receipts' = receipts \cup {r}
       /\ r.id \notin {q.id : q \in receipts}
       /\ \E l \in user_receipts' \ user_receipts :
            /\ user_receipts' = user_receipts \cup {l}
            /\ l.receipt_id = r.id
            /\ AccountOf(c) = {l.user_id}
            /\ l.notes = ExpectedNotes(c)
            /\ \A l2 \in user_receipts' : l2.receipt_id = r.id => l2 = l

MaxSizes == 3

PhotoSizes == {PhotoSmall, PhotoMedium, PhotoLarge}

\* the non-empty lists of different sizes
PhotoLists ==
  UNION {{q \in [1..n -> PhotoSizes] : \A i, j \in 1..n : i # j => q[i] # q[j]} : n \in 1..MaxSizes}

PhotoMsgs == {PhotoOf(c, NULL, q) : c \in Chats, q \in PhotoLists}

NextPhoto ==
  \/ \E c \in Chats : Direct(HandleSetKey(Text(c, S_setkey \o Sp \o K1)))
  \/ \E msg \in PhotoMsgs : Direct(HandlePhoto(msg))
  \/ \E s \in Slots, ok \in BOOLEAN : Direct(TypingDone(s, ok))
  \/ \E s \in Slots, outcome \in {"rejects", "no_file_path", "ok"} : Direct(PhotoFetch(s, outcome))
  \/ \E s \in Slots : Direct(AnalyzeReturn(s, NotJson, U1, now))

SpecPhoto == Init /\ [][NextPhoto]_vars

(***************************************************************************)
(* C37                                                                     *)
(***************************************************************************)
\* width x height
Resolution(p) == p.width * p.height

\* the sizes of the list are in ascending order of resolution
Ascending(photos) ==
  \A i, j \in 1..Len(photos) : i < j => Resolution(photos[i]) <= Resolution(photos[j])

\* the file handed to getFile in the step just taken is that of a size of
\* the event's list that has the maximum resolution of the list
FetchedHighest(photos) ==
  \E i \in 1..Len(photos) :
    /\ last'.body = Val(photos[i].file_id)
    /\ \A j \in 1..Len(photos) : Resolution(photos[j]) <= Resolution(photos[i])

\* C37: the photo handler selects the highest-resolution variant.  For every
\* non-empty list of photo sizes, the size whose file is fetched has the
\* maximum resolution (width x height) among the sizes of the event.
C37_HighestResolution ==
  [][\A s \in Slots :
       (/\ last'.op = "handlePhoto" /\ last'.at = "fetch"
        /\ handlers[s].kind = "photo" /\ handlers[s].pc = "fetch") =>
          FetchedHighest(handlers[s].photo)]_vars

\* the photo of chat 101 came with its sizes listed large first: the handler
\* fetched the small one and handed it to the bridge
C37_Witness ==
  /\ last.op = "handlePhoto" /\ last.at = "fetch" /\ last.reply = "analyzing"
  /\ last.body = Val("file_s")
  /\ \E s \in Slots :
       /\ handlers[s].chat = "101" /\ handlers[s].pc = "analyze"
       /\ handlers[s].photo = <<PhotoLarge, PhotoSmall>>

(***************************************************************************)
(* SpecOrphan: saving for an account the database does not hold.  Alice    *)
(* registers and saves and deletes receipts; chat 101 stores a credential, *)
(* gets receipts saved from text and deletes them.  A client also presents *)
(* tokens that carry the server's signature for account ids the users      *)
(* table may not hold: verifyToken compares the signature and the expiry   *)
(* and never looks the account up, and JWT_SECRET does not change when the *)
(* database file is replaced.                                              *)
(***************************************************************************)
SignedHeaders == {Bearer(SignToken(u, 0)) : u \in 1..MaxRestUsers}

OrphanMsgs ==
  {Text("101", S_setkey \o Sp \o K1), Text("101", Tea), Text("101", S_delete \o Sp \o P_a)}

NextOrphan ==
  \/ Direct(HandleRegister(RegisterBody(Alice)))
  \/ \E auth \in SignedHeaders, receipt \in {Val(R110), Val(RBadItem)} :
       /\ Cardinality(receipts) < MaxReceipts
       /\ Direct(HandleSaveReceipt(auth, receipt, Val(Caption), NextUuid))
  \/ \E auth \in SignedHeaders, id \in IsolationIds : Direct(HandleDeleteReceipt(auth, id))
  \/ \E msg \in OrphanMsgs :
       \/ Direct(HandleSetKey(msg))
       \/ Direct(HandleTextReceipt(msg))
       \/ Direct(HandleDelete(msg))
  \/ \E s \in Slots : Direct(TypingDone(s, TRUE))
  \/ \E s \in Slots, raw \in {Json(R220), Json(RBadItem)} :
       Cardinality(receipts) < MaxReceipts /\ Direct(AnalyzeReturn(s, raw, NextUuid, now))

SpecOrphan == Init /\ [][NextOrphan]_vars

(***************************************************************************)
(* C38                                                                     *)
(***************************************************************************)
\* the receipts no ownership link refers to
Orphans == {r \in receipts : \A l \in user_receipts : l.receipt_id # r.id}

\* C38: no orphan receipts.  After any sequence of REST and chat operations
\* every stored receipt has at least one ownership link; and a save in
\* which createReceiptForUser fails, for instance because the token is valid
\* but its account does not exist, leaves no receipt and no line item
\* behind.
C38_NoOrphans ==
  /\ [](Orphans = {})
  /\ [][(last'.op \in {"handleSaveReceipt", "handlePhoto", "handleTextReceipt"}
         /\ last'.reply \in {"500", "failed"}) =>
          UNCHANGED <<receipts, receipt_items, user_receipts>>]_vars

\* a save with a signed token for account 2, which the users table does not
\* hold, was answered 500: the receipt and its item are stored and no
\* ownership link refers to the receipt
C38_Witness ==
  /\ last.op = "handleSaveReceipt" /\ last.reply = "500"
  /\ last.uid = Val(2) /\ \A u \in users : u.id # 2
  /\ \E r \in Orphans : \E i \in receipt_items : i.receipt_id = r.id
  /\ user_receipts = {}

(***************************************************************************)
(* SpecLoops: startPolling called more than once.  `running` is one flag   *)
(* of the module; offset and updates are locals of each call.  Here poll   *)
(* holds the flag and, for every call, its locals, its place (pc) and      *)
(* whether stopPolling was called while it ran (stopped); the token is     *)
(* set.  log.dispatched lists <<call, update_id>>.                         *)
(***************************************************************************)
\* calls of startPolling
MaxLoops == 2

LoopIds == 1..MaxLoops

NotStarted == [pc |-> "off", offset |-> 0, updates |-> <<>>, stopped |-> FALSE]

InitLoops ==
  /\ users = {} /\ telegram_users = {} /\ receipts = {} /\ receipt_items = {}
  /\ user_receipts = {}
  /\ now = 0
  /\ handlers = [s \in 1..MaxInFlight |-> Idle]
  /\ last = Step("init", "", "", <<>>, "none")
  /\ poll = [running |-> FALSE, loops |-> [i \in LoopIds |-> NotStarted]]
  /\ telegram = [pending |-> <<>>, next_id |-> 1]
  /\ log = [sent |-> NULL, received |-> {}, messages |-> {}, dispatched |-> <<>>,
            rejected |-> {}, failed |-> FALSE, done |-> NULL]

\* the calls that have not returned or failed
Live == {i \in LoopIds : poll.loops[i].pc \in {"starting", "loop", "polling", "batch", "delay"}}

\* no call is inside its for loop
BetweenLoops == \A i \in LoopIds : poll.loops[i].pc # "batch"

\* startPolling up to `await setMyCommands()`: running = true; let offset = 0
StartPollingLoop(i) ==
  /\ BetweenLoops
  /\ poll.loops[i].pc = "off"
  /\ \A j \in 1..(i - 1) : poll.loops[j].pc # "off"
  /\ poll' = [running |-> TRUE,
              loops |-> [poll.loops EXCEPT ![i] = [NotStarted EXCEPT !.pc = "starting"]]]
  /\ last' = [PollStep("startPolling", "poll", "none") EXCEPT !.uid = Val(i)]
  /\ UNCHANGED <<store, now, handlers, telegram, log>>

\* setMyCommands settles
SetMyCommandsLoop(i, ok) ==
  /\ BetweenLoops
  /\ poll.loops[i].pc = "starting"
  /\ poll' = [poll EXCEPT !.loops[i].pc = IF ok THEN "loop" ELSE "failed"]
  /\ last' = IF ok THEN [PollStep("setMyCommands", "poll", "none") EXCEPT !.uid = Val(i)]
             ELSE [Threw("setMyCommands", "poll", "", <<>>) EXCEPT !.uid = Val(i)]
  /\ UNCHANGED <<store, now, handlers, telegram, log>>

\* while (running): the flag is read, and getUpdates is sent or the call returns
GetUpdatesLoop(i) ==
  /\ BetweenLoops
  /\ poll.loops[i].pc = "loop"
  /\ IF poll.running
     THEN /\ poll' = [poll EXCEPT !.loops[i].pc = "polling"]
          /\ telegram' = [telegram EXCEPT !.pending =
                            SelectSeq(telegram.pending,
                                      LAMBDA u : u.update_id >= poll.loops[i].offset)]
          /\ last' = [PollStep("getUpdates", "send", "none") EXCEPT !.uid = Val(i)]
     ELSE /\ poll' = [poll EXCEPT !.loops[i].pc = "done"]
          /\ last' = [PollStep("startPolling", "return", "none") EXCEPT !.uid = Val(i)]
          /\ UNCHANGED telegram
  /\ UNCHANGED <<store, now, handlers, log>>

\* the request resolves with the unconfirmed updates from the offset on
GetUpdatesResultLoop(i) ==
  /\ BetweenLoops
  /\ poll.loops[i].pc = "polling"
  /\ poll' = [poll EXCEPT !.loops[i].pc = "batch",
                          !.loops[i].updates =
                             SelectSeq(telegram.pending,
                                       LAMBDA u : u.update_id >= poll.loops[i].offset)]
  /\ last' = [PollStep("getUpdates", "result", "none") EXCEPT !.uid = Val(i)]
  /\ UNCHANGED <<store, now, handlers, telegram, log>>

\* the request rejects (the provider ends a getUpdates when another one is
\* sent for the same token): catch, await setTimeout(5000)
GetUpdatesErrorLoop(i) ==
  /\ BetweenLoops
  /\ poll.loops[i].pc = "polling"
  /\ poll' = [poll EXCEPT !.loops[i].pc = "delay"]
  /\ last' = [Threw("getUpdates", "result", "", <<>>) EXCEPT !.uid = Val(i)]
  /\ UNCHANGED <<store, now, handlers, telegram, log>>

DelayDoneLoop(i) ==
  /\ BetweenLoops
  /\ poll.loops[i].pc = "delay"
  /\ poll' = [poll EXCEPT !.loops[i].pc = "loop"]
  /\ last' = [PollStep("setTimeout", "poll", "none") EXCEPT !.uid = Val(i)]
  /\ UNCHANGED <<store, now, handlers, telegram, log>>

\* one turn of `for (const update of updates)`
DispatchLoop(i) ==
  /\ poll.loops[i].pc = "batch"
  /\ poll.loops[i].updates # <<>>
  /\ LET update == Head(poll.loops[i].updates)
     IN  /\ poll' = [poll EXCEPT !.loops[i].offset = NextOffset(update),
                                 !.loops[i].updates = Tail(@)]
         /\ IF update.message # NULL
            THEN /\ HandleMessage(TheVal(update.message))
                 /\ log' = [log EXCEPT !.dispatched = Append(@, <<i, update.update_id>>)]
            ELSE /\ last' = PollStep("startPolling", "skip", "none")
                 /\ UNCHANGED <<store, now, handlers, log>>
  /\ UNCHANGED telegram

\* the for loop is through: back to `while (running)`
BatchDoneLoop(i) ==
  /\ poll.loops[i].pc = "batch"
  /\ poll.loops[i].updates = <<>>
  /\ poll' = [poll EXCEPT !.loops[i].pc = "loop"]
  /\ last' = [PollStep("startPolling", "loop", "none") EXCEPT !.uid = Val(i)]
  /\ UNCHANGED <<store, now, handlers, telegram, log>>

\* stopPolling: running = false
StopPollingLoops ==
  /\ BetweenLoops
  /\ poll.running
  /\ poll' = [running |-> FALSE,
              loops |-> [i \in LoopIds |->
                           IF i \in Live THEN [poll.loops[i] EXCEPT !.stopped = TRUE]
                           ELSE poll.loops[i]]]
  /\ last' = PollStep("stopPolling", "poll", "none")
  /\ UNCHANGED <<store, now, handlers, telegram, log>>

\* the provider gets an update
ArriveLoops(message) ==
  /\ BetweenLoops
  /\ Len(telegram.pending) < MaxPending
  /\ telegram.next_id <= MaxUpdateId
  /\ telegram' = [pending |-> Append(telegram.pending, Update(telegram.next_id, message)),
                  next_id |-> telegram.next_id + 1]
  /\ UNCHANGED <<store, now, handlers, last, poll, log>>

LoopMessages == {Val(Text("101", S_start)), Val(Text("101", S_help))}

NextLoops ==
  \/ \E i \in LoopIds : StartPollingLoop(i)
  \/ \E i \in LoopIds, ok \in BOOLEAN : SetMyCommandsLoop(i, ok)
  \/ \E i \in LoopIds : GetUpdatesLoop(i)
  \/ \E i \in LoopIds : GetUpdatesResultLoop(i)
  \/ \E i \in LoopIds : GetUpdatesErrorLoop(i)
  \/ \E i \in LoopIds : DelayDoneLoop(i)
  \/ \E i \in LoopIds : DispatchLoop(i)
  \/ \E i \in LoopIds : BatchDoneLoop(i)
  \/ StopPollingLoops
  \/ \E message \in LoopMessages : ArriveLoops(message)

SpecLoops == InitLoops /\ [][NextLoops]_vars

(***************************************************************************)
(* C39                                                                     *)
(***************************************************************************)
\* the calls that fetch or dispatch: a getUpdates in flight, a batch in
\* hand, or on the way to the next getUpdates
Fetching == {i \in LoopIds : poll.loops[i].pc \in {"loop", "polling", "batch", "delay"}}

\* C39: across any interleaving of startPolling and stopPolling calls, at
\* most one poll loop is fetching and dispatching updates at a time; a loop
\* that was running when stopPolling was called sends no further getUpdates
\* once its poll in flight has returned, even if startPolling is called
\* again before that; and no update is dispatched by two loops.
C39_OneLoop ==
  /\ [](Cardinality(Fetching) <= 1)
  /\ [][\A i \in LoopIds :
          (poll.loops[i].stopped /\ poll.loops[i].pc # "polling") =>
             poll'.loops[i].pc # "polling"]_vars
  /\ [](\A j, k \in 1..Len(log.dispatched) :
          log.dispatched[j][2] = log.dispatched[k][2] =>
            log.dispatched[j][1] = log.dispatched[k][1])

\* stopPolling was called while the first loop had a getUpdates in flight,
\* startPolling was called again before it returned; the first loop got its
\* answer, went round and has a second getUpdates in flight, the second
\* loop has one too, and update 1 was dispatched by both
C39_Witness ==
  /\ poll.running
  /\ poll.loops[1].stopped /\ poll.loops[1].pc = "polling" /\ poll.loops[1].offset > 0
  /\ ~poll.loops[2].stopped /\ poll.loops[2].pc = "polling"
  /\ \E j, k \in 1..Len(log.dispatched) :
       log.dispatched[j] = <<1, 1>> /\ log.dispatched[k] = <<2, 1>>

(***************************************************************************)
(* SpecBatch: several events of one chat in a batch.  Chat 101 sends       *)
(* /setkey with one of two tokens, a text and a photo; the loop is         *)
(* started with a token and dispatches what getUpdates returns; the        *)
(* handlers that went on run their continuations between two batches; the  *)
(* bridge answers with text that is not JSON.                              *)
(***************************************************************************)
BatchMessages ==
  {Val(Text("101", S_setkey \o Sp \o K1)), Val(Text("101", S_setkey \o Sp \o K2)),
   Val(Text("101", Tea)), Val(Photo("101", NULL))}

NextBatch ==
  \/ StartPolling("token")
  \/ SetMyCommands(TRUE)
  \/ GetUpdates
  \/ \E k \in 0..MaxPending : GetUpdatesResult(k)
  \/ Dispatch
  \/ BatchDone
  \/ \E message \in BatchMessages : Arrive(message, 0)
  \/ \E s \in Slots : Between /\ Direct(TypingDone(s, TRUE))
  \/ \E s \in Slots : Between /\ Direct(PhotoFetch(s, "ok"))
  \/ \E s \in Slots : Between /\ Direct(AnalyzeReturn(s, NotJson, U1, now))

SpecBatch == Init /\ [][NextBatch]_vars

(***************************************************************************)
(* C40                                                                     *)
(***************************************************************************)
\* C40: for two events of the same chat in one batch of which the earlier is
\* /setkey K, the write of K is in the store before the handler of the later
\* event starts, so a photo or text handler that comes next reads the
\* credential K and goes on with it, although the loop does not await the
\* handlers.
C40_WriteBeforeNext ==
  [][\A c \in Chats :
       (/\ poll.pc = "batch"
        /\ last.op = "handleSetKey" /\ last.reply = "key_updated" /\ last.chat = c
        /\ IsExtraction(last') /\ last'.chat = c) =>
          /\ StoredCred(c) = last.key
          /\ last'.reply = "none"
          /\ \E s \in Slots :
               /\ handlers[s].kind = "idle"
               /\ handlers'[s].chat = c /\ handlers'[s].pc = "typing"
               /\ handlers'[s].apiKey = last.key]_vars

\* the first batch held /setkey k1 and the text of chat 101, in that order:
\* the chat had no session before, and the text handler started with k1,
\* the credential stored by the event just before it
C40_Witness ==
  /\ poll.pc = "batch" /\ log.sent = Val(0) /\ log.dispatched = <<1, 2>>
  /\ last.op = "handleTextReceipt" /\ last.at = "dispatch" /\ last.chat = "101"
  /\ last.reply = "none"
  /\ StoredCred("101") = Val(K1)
  /\ \E s \in Slots : handlers[s].chat = "101" /\ handlers[s].apiKey = Val(K1)
====
